---- MODULE Spec2Model ----
(***************************************************************************)
(* Model of the periodic data-collection pipeline of the 0DTE analyzer:    *)
(* the DataCollector (start / stop / interval timer / collection cycles),  *)
(* the chain fetch with its access-token provider, and the per-contract    *)
(* persistence and naked-position check; and of the derived metrics that   *)
(* are pure functions of a chain: the naked-position test, the max-pain     *)
(* strike and the credit-spread enumeration.                               *)
(*                                                                         *)
(* One JavaScript macrotask is one action.  A cycle is suspended only at   *)
(* an await of real I/O (token refresh, chain request, persistence write); *)
(* everything the code runs between two such awaits is part of the action  *)
(* that resumes it.                                                        *)
(***************************************************************************)
EXTENDS Integers, Sequences, FiniteSets, TLC

\* ---------------------------------------------------------------- bounds
NumSymbols == 2        \* length of the configured tracked-symbol list
MaxCycles == 2         \* collection cycles begun in one behaviour
MaxCalls == 2          \* start/stop calls made in one behaviour
MaxQty == 6            \* volumes and open interests 0..MaxQty are tried
MaxLegs == 2           \* contracts per side of a chain given to calculateMaxPain
MaxOptions == 3        \* contracts in a list given to calculateCreditSpreads
MaxAtm == 4            \* contracts, calls and puts together, given to findATMOptions
MaxBatch == 2          \* spreads handed to the scorer by one findBestSpreads
MaxStates == 2         \* OAuth states issued by generateState
MaxTime == 4           \* clock steps of five minutes the OAuth state store is followed for

\* ------------------------------------------------------- program constants
AllSymbols == <<"SPY", "QQQ", "SPX", "IWM", "DIA">>
TRACKED_SYMBOLS == SubSeq(AllSymbols, 1, NumSymbols)
POLLING_INTERVAL == 60000
\* NAKED_THRESHOLD = 1.5, kept exact as the fraction 3/2
NAKED_THRESHOLD_NUM == 3
NAKED_THRESHOLD_DEN == 2
NoTimer == 0           \* intervalId = null

\* ------------------------------------------------------------ chain data
Contract(side, volume, oi) ==
    [putCall |-> side, totalVolume |-> volume, openInterest |-> oi]

\* The bodies the market-data source may answer with: an empty chain (no
\* contracts, e.g. outside trading hours) and a chain with one call that is
\* above the naked threshold and one put that is not.
Chains ==
    { [calls |-> <<>>, puts |-> <<>>],
      [calls |-> <<Contract("CALL", 200, 100)>>,
       puts  |-> <<Contract("PUT", 140, 100)>>] }

HttpOutcomes == {"ok", "notOk", "error"}
WriteOutcomes == {"data", "error", "throw"}

VARIABLES
    isRunning,     \* DataCollector.isRunning
    intervalId,    \* DataCollector.intervalId (NoTimer = null)
    timers,        \* the runtime's armed interval timers
    timerSeq,      \* number of setInterval calls made so far
    cycles,        \* every collectData() invocation begun, in start order
    tokenStore,    \* auth.ts tokenStore: "none" | "valid" | "expired"
    calls,         \* (history) the start/stop calls made and how each returned
    watch,         \* (history) the latest null fetch and the cycle retrying it
    ledger,        \* (history) chains fetched, quotes written, checks run, events
    probe          \* a call of one of the pure functions: its input and result

vars == <<isRunning, intervalId, timers, timerSeq, cycles, tokenStore, calls, watch,
          ledger, probe>>

\* What the collector's own steps leave alone when nothing is being recorded.
aside == <<ledger, probe>>

collectorState == <<isRunning, intervalId, timers, timerSeq, cycles>>

\* ------------------------------------------------------ the collection cycle
\* A cycle (one invocation of collectData):
\*   by        what invoked it: "start" (line 206) or "timer" (line 210)
\*   sym       index in TRACKED_SYMBOLS of the symbol of the current iteration
\*   pc        the await it is suspended at: "refresh", "http", "store",
\*             "naked"; or "done" (returned) / "aborted" (promise rejected)
\*   contracts the contracts of the chain being processed, calls then puts
\*   k         index of the contract being processed
\*   out       symbols whose chain request is outstanding at the upstream
\*   fetchLog  symbols fetchOptionsChain was called for, in call order
NewCycle(origin) ==
    [by |-> origin, sym |-> 1, pc |-> "init", contracts |-> <<>>, k |-> 0,
     out |-> {}, fetchLog |-> <<>>]

InFlight(cyc) == cyc.pc \in {"refresh", "http", "store", "naked"}
Ended(cyc) == cyc.pc \in {"done", "aborted"}

\* Synchronous part of SchwabAuth.getAccessToken: a valid token is returned,
\* an expired one with a refresh token starts a refresh request, otherwise
\* it throws.
getAccessToken(tk) ==
    CASE tk = "valid" -> "token"
      [] tk = "expired" -> "refreshing"
      [] OTHER -> "throw"

\* collectData with the await of fetchOptionsChain left out: the pending
\* promise is truthy and has no expiration maps, so the loop goes straight on
\* to the next symbol while the request is still outstanding.
RECURSIVE collectData_noAwait(_, _)
collectData_noAwait(cyc, tk) ==
    IF cyc.sym > Len(TRACKED_SYMBOLS)
    THEN [cyc EXCEPT !.pc = "done"]
    ELSE collectData_noAwait(
             [cyc EXCEPT !.fetchLog = Append(@, TRACKED_SYMBOLS[cyc.sym]),
                         !.out = IF getAccessToken(tk) = "token"
                                 THEN @ \cup {TRACKED_SYMBOLS[cyc.sym]} ELSE @,
                         !.sym = @ + 1], tk)

RECURSIVE collectData(_, _)

\* collectData after fetchOptionsChain returned null: log the failure and go
\* on with the next symbol of the loop.
ChainNull(cyc, tk) ==
    collectData([cyc EXCEPT !.sym = @ + 1], tk)

\* An exception inside collectData that nothing catches: the promise returned
\* by collectData() rejects and the rest of the cycle never runs.
Rejected(cyc) ==
    [cyc EXCEPT !.pc = "aborted", !.contracts = <<>>, !.k = 0]

\* fetchOptionsChain with getAccessToken awaited outside the try block.
fetchOptionsChain_noCatch(cyc, tk) ==
    LET s == TRACKED_SYMBOLS[cyc.sym]
        called == [cyc EXCEPT !.fetchLog = Append(@, s)]
    IN CASE getAccessToken(tk) = "token" ->
              [called EXCEPT !.pc = "http", !.out = @ \cup {s}]
         [] getAccessToken(tk) = "refreshing" ->
              [called EXCEPT !.pc = "refresh"]
         [] OTHER -> Rejected(called)

\* fetchOptionsChain up to its first await of I/O.  A throw of the token
\* provider is caught by the try block and yields null.
fetchOptionsChain(cyc, tk) ==
    LET s == TRACKED_SYMBOLS[cyc.sym]
        called == [cyc EXCEPT !.fetchLog = Append(@, s)]
    IN CASE getAccessToken(tk) = "token" ->
              [called EXCEPT !.pc = "http", !.out = @ \cup {s}]
         [] getAccessToken(tk) = "refreshing" ->
              [called EXCEPT !.pc = "refresh"]
         [] OTHER -> ChainNull(called, tk)

\* The for loop of collectData, entered at iteration cyc.sym.
collectData(cyc, tk) ==
    IF cyc.sym > Len(TRACKED_SYMBOLS)
    THEN [cyc EXCEPT !.pc = "done"]
    ELSE fetchOptionsChain(cyc, tk)

\* checkNakedPosition without the early return for a zero volume or a zero
\* open interest.
checkNakedPosition_noSkip(contract, num, den) ==
    IF contract.totalVolume * den > contract.openInterest * num
    THEN "event"
    ELSE "none"

\* checkNakedPosition that also flags a volume equal to the threshold.
checkNakedPosition_atLeast(contract, num, den) ==
    IF contract.totalVolume = 0 \/ contract.openInterest = 0
    THEN "skipped"
    ELSE IF contract.totalVolume * den >= contract.openInterest * num
         THEN "event"
         ELSE "none"

\* checkNakedPosition under the threshold num/den (den > 0): return at once
\* when volume or open interest is 0 ("skipped"); otherwise call
\* storeNakedPosition ("event") when volume > openInterest * NAKED_THRESHOLD,
\* and do nothing ("none") when not.
checkNakedPosition(contract, num, den) ==
    IF contract.totalVolume = 0 \/ contract.openInterest = 0
    THEN "skipped"
    ELSE IF contract.totalVolume * den > contract.openInterest * num
         THEN "event"
         ELSE "none"

\* checkNakedPosition flags the contract under the configured threshold.
IsNaked(contract) ==
    checkNakedPosition(contract, NAKED_THRESHOLD_NUM, NAKED_THRESHOLD_DEN) = "event"

\* The contract loops of processOptionsChain at contract k: await storeOption
\* for it, or, past the last contract, return to collectData's loop.
ProcessContract(cyc, tk) ==
    IF cyc.k > Len(cyc.contracts)
    THEN collectData([cyc EXCEPT !.sym = @ + 1, !.contracts = <<>>, !.k = 0], tk)
    ELSE [cyc EXCEPT !.pc = "store"]

processOptionsChain(cyc, chain, tk) ==
    ProcessContract([cyc EXCEPT !.contracts = chain.calls \o chain.puts,
                                !.k = 1], tk)

\* storeOption returned for contract k: run checkNakedPosition on it.
AfterStore(cyc, tk) ==
    IF IsNaked(cyc.contracts[cyc.k])
    THEN [cyc EXCEPT !.pc = "naked"]
    ELSE ProcessContract([cyc EXCEPT !.k = @ + 1], tk)

\* ------------------------------------------------------- history variables
\* watch observes the last symbol of the list, the one a cut-short cycle
\* misses.  watch = [sym |-> i, cycle |-> c]: sym is Len(TRACKED_SYMBOLS) once
\* a fetchOptionsChain of that symbol has returned null (0: not yet, or the
\* collector was stopped since); cycle is the cycle the timer began after that
\* failure (0: the timer has not fired since).
NoWatch == [sym |-> 0, cycle |-> 0]

\* A fetchOptionsChain of the last tracked symbol returned null in a step that
\* resumed a cycle at iteration from (0: a new cycle) and left it as post;
\* failedNow says that the step itself delivered a fetch failure for symbol
\* from.  Without any credential every later fetchOptionsChain of the step
\* returns null at once, so a cycle that returned has failed the last symbol.
LastNull(from, failedNow, post, tk) ==
    \/ tk = "none" /\ post.pc = "done" /\ from < Len(TRACKED_SYMBOLS)
    \/ failedNow /\ from = Len(TRACKED_SYMBOLS)

Observed(from, failedNow, post, tk) ==
    IF LastNull(from, failedNow, post, tk)
    THEN [sym |-> Len(TRACKED_SYMBOLS), cycle |-> 0]
    ELSE watch

\* The call log after a call of op that returned normally / that threw.
Returned(op) == Append(calls, [op |-> op, res |-> "ok"])
Threw(op) == Append(calls, [op |-> op, res |-> "error"])

\* No pure function is under test.
NoProbe == [fn |-> "none"]

\* --------------------------------------------------------------------- Init
Init ==
    /\ isRunning = FALSE
    /\ intervalId = NoTimer
    /\ timers = {}
    /\ timerSeq = 0
    /\ cycles = <<>>
    /\ tokenStore = "none"
    /\ calls = <<>>
    /\ watch = NoWatch
    /\ ledger = <<>>
    /\ probe = NoProbe

\* ------------------------------------------------------------ DataCollector
\* The body of start() past the guard: the immediate collectData(), then
\* setInterval and the running flag.
StartCollector ==
    /\ Len(cycles) < MaxCycles
    /\ cycles' = Append(cycles, collectData(NewCycle("start"), tokenStore))
    /\ watch' = Observed(0, FALSE, cycles'[Len(cycles')], tokenStore)
    /\ timerSeq' = timerSeq + 1
    /\ timers' = timers \cup {[id |-> timerSeq + 1, ms |-> POLLING_INTERVAL]}
    /\ intervalId' = timerSeq + 1
    /\ isRunning' = TRUE
    /\ UNCHANGED tokenStore

\* The body of stop() past the guard, without the reset of the running flag.
StopCollector_keepsFlag ==
    /\ timers' = {t \in timers : t.id # intervalId}
    /\ intervalId' = NoTimer
    /\ watch' = NoWatch
    /\ UNCHANGED <<isRunning, timerSeq, cycles, tokenStore>>

\* The body of stop() past the guard.
StopCollector ==
    /\ timers' = {t \in timers : t.id # intervalId}
    /\ intervalId' = NoTimer
    /\ isRunning' = FALSE
    /\ watch' = NoWatch
    /\ UNCHANGED <<timerSeq, cycles, tokenStore>>

\* DataCollector.start() with the isRunning guard left out.
Start_noGuard ==
    /\ Len(calls) < MaxCalls
    /\ calls' = Returned("start")
    /\ StartCollector

\* DataCollector.start() without the immediate collectData() call.
Start_noImmediate ==
    /\ Len(calls) < MaxCalls
    /\ calls' = Returned("start")
    /\ IF isRunning
       THEN UNCHANGED <<collectorState, tokenStore, watch>>
       ELSE /\ timerSeq < MaxCycles
            /\ timerSeq' = timerSeq + 1
            /\ timers' = timers \cup {[id |-> timerSeq + 1, ms |-> POLLING_INTERVAL]}
            /\ intervalId' = timerSeq + 1
            /\ isRunning' = TRUE
            /\ UNCHANGED <<cycles, tokenStore, watch>>

\* DataCollector.start()
Start ==
    /\ Len(calls) < MaxCalls
    /\ calls' = Returned("start")
    /\ IF isRunning
       THEN UNCHANGED <<collectorState, tokenStore, watch>>
       ELSE StartCollector

\* DataCollector.stop() that forgets clearInterval.
Stop_keepsTimer ==
    /\ Len(calls) < MaxCalls
    /\ calls' = Returned("stop")
    /\ IF ~isRunning \/ intervalId = NoTimer
       THEN UNCHANGED <<collectorState, tokenStore, watch>>
       ELSE /\ intervalId' = NoTimer
            /\ isRunning' = FALSE
            /\ watch' = NoWatch
            /\ UNCHANGED <<timers, timerSeq, cycles, tokenStore>>

\* DataCollector.stop() that throws when the collector is not running.
Stop_throws ==
    /\ Len(calls) < MaxCalls
    /\ IF ~isRunning \/ intervalId = NoTimer
       THEN /\ calls' = Threw("stop")
            /\ UNCHANGED <<collectorState, tokenStore, watch>>
       ELSE /\ calls' = Returned("stop")
            /\ StopCollector

\* DataCollector.stop()
Stop ==
    /\ Len(calls) < MaxCalls
    /\ calls' = Returned("stop")
    /\ IF ~isRunning \/ intervalId = NoTimer
       THEN UNCHANGED <<collectorState, tokenStore, watch>>
       ELSE StopCollector

\* An armed interval timer fires: its callback calls collectData().
Tick ==
    /\ timers # {}
    /\ Len(cycles) < MaxCycles
    /\ cycles' = Append(cycles, collectData(NewCycle("timer"), tokenStore))
    /\ watch' = IF watch.sym > 0 /\ watch.cycle = 0
                THEN [watch EXCEPT !.cycle = Len(cycles) + 1]
                ELSE Observed(0, FALSE, cycles'[Len(cycles')], tokenStore)
    /\ UNCHANGED <<isRunning, intervalId, timers, timerSeq, tokenStore, calls>>

\* The token endpoint answers the refresh request of suspended cycle c:
\* refreshAccessToken stores the new tokens, or throws and getAccessToken
\* rethrows into fetchOptionsChain's catch.
RefreshResponse(c, ok) ==
    /\ cycles[c].pc = "refresh"
    /\ IF ok
       THEN /\ tokenStore' = "valid"
            /\ cycles' = [cycles EXCEPT ![c] =
                   [@ EXCEPT !.pc = "http",
                             !.out = @ \cup {TRACKED_SYMBOLS[cycles[c].sym]}]]
       ELSE /\ UNCHANGED tokenStore
            /\ cycles' = [cycles EXCEPT ![c] = ChainNull(@, tokenStore)]
    /\ watch' = Observed(cycles[c].sym, ~ok, cycles'[c], tokenStore')
    /\ UNCHANGED <<isRunning, intervalId, timers, timerSeq, calls>>

\* The market-data source answers the outstanding chain request of cycle c
\* ("ok" with a parsed chain, "notOk" for !response.ok) or the transport or
\* the JSON parse fails ("error").
HttpResponse(c, outcome, chain) ==
    /\ cycles[c].pc = "http"
    /\ TRACKED_SYMBOLS[cycles[c].sym] \in cycles[c].out
    /\ LET cyc == [cycles[c] EXCEPT !.out = @ \ {TRACKED_SYMBOLS[cycles[c].sym]}]
       IN cycles' = [cycles EXCEPT ![c] =
              IF outcome = "ok"
              THEN processOptionsChain(cyc, chain, tokenStore)
              ELSE ChainNull(cyc, tokenStore)]
    /\ watch' = Observed(cycles[c].sym, outcome # "ok", cycles'[c], tokenStore)
    /\ UNCHANGED <<isRunning, intervalId, timers, timerSeq, tokenStore, calls>>

\* supabaseService.storeOptionsQuote settles for the contract cycle c is
\* storing: it returns the row ("data"), returns null after logging the
\* store's error ("error"), or the awaited call rejects ("throw").
StoreResponse(c, outcome) ==
    /\ cycles[c].pc = "store"
    /\ cycles' = [cycles EXCEPT ![c] =
           IF outcome = "throw" THEN Rejected(@) ELSE AfterStore(@, tokenStore)]
    /\ watch' = Observed(cycles[c].sym, FALSE, cycles'[c], tokenStore)
    /\ UNCHANGED <<isRunning, intervalId, timers, timerSeq, tokenStore, calls>>

\* supabaseService.storeNakedPosition settles for the flagged contract.
NakedResponse(c, outcome) ==
    /\ cycles[c].pc = "naked"
    /\ cycles' = [cycles EXCEPT ![c] =
           IF outcome = "throw"
           THEN Rejected(@)
           ELSE ProcessContract([@ EXCEPT !.k = @ + 1], tokenStore)]
    /\ watch' = Observed(cycles[c].sym, FALSE, cycles'[c], tokenStore)
    /\ UNCHANGED <<isRunning, intervalId, timers, timerSeq, tokenStore, calls>>

\* --------------------------------------------------------------- SchwabAuth
\* exchangeCodeForToken completes and calls storeTokens (OAuth callback).
storeTokens ==
    /\ tokenStore' = "valid"
    /\ UNCHANGED <<collectorState, calls, watch>>

\* SchwabAuth.clearTokens (POST /api/auth/logout)
clearTokens ==
    /\ tokenStore' = "none"
    /\ UNCHANGED <<collectorState, calls, watch>>

\* Date.now() passes tokenStore.expires_at.
TokenExpires ==
    /\ tokenStore = "valid"
    /\ tokenStore' = "expired"
    /\ UNCHANGED <<collectorState, calls, watch>>

Next ==
    \/ Start /\ UNCHANGED aside
    \/ Stop /\ UNCHANGED aside
    \/ Tick /\ UNCHANGED aside
    \/ \E c \in 1..Len(cycles), ok \in BOOLEAN :
           RefreshResponse(c, ok) /\ UNCHANGED aside
    \/ \E c \in 1..Len(cycles), outcome \in HttpOutcomes, chain \in Chains :
           HttpResponse(c, outcome, chain) /\ UNCHANGED aside
    \/ \E c \in 1..Len(cycles), outcome \in WriteOutcomes :
           StoreResponse(c, outcome) /\ UNCHANGED aside
    \/ \E c \in 1..Len(cycles), outcome \in WriteOutcomes :
           NakedResponse(c, outcome) /\ UNCHANGED aside
    \/ storeTokens /\ UNCHANGED aside
    \/ clearTokens /\ UNCHANGED aside
    \/ TokenExpires /\ UNCHANGED aside

Spec == Init /\ [][Next]_vars

TypeOK ==
    /\ isRunning \in BOOLEAN
    /\ intervalId \in {NoTimer} \cup 1..MaxCycles
    /\ timerSeq \in 0..MaxCycles
    /\ Len(cycles) <= MaxCycles
    /\ tokenStore \in {"none", "valid", "expired"}
    /\ Len(calls) <= MaxCalls
    /\ watch.sym \in {0, Len(TRACKED_SYMBOLS)}
    /\ watch.cycle \in 0..MaxCycles
    /\ \A c \in 1..Len(cycles) :
         cycles[c].pc \in {"refresh", "http", "store", "naked", "done", "aborted"}

\* ------------------------------------------------ what a cycle did to a chain
\* A ledger entry: what is "chain" (processOptionsChain was entered with a
\* fetched chain, whose contracts it lists, calls then puts), "quote"
\* (storeOption called storeOptionsQuote for contract k), "check"
\* (checkNakedPosition ran on contract k) or "event" (checkNakedPosition
\* called storeNakedPosition for contract k); cycle and sym say where.
Entry(what, c, sym, k, contracts) ==
    [what |-> what, cycle |-> c, sym |-> sym, k |-> k, contracts |-> contracts]

\* The step left cycle c at the await of storeOption: storeOptionsQuote was
\* called for the contract the cycle is now at.
Issued(c) ==
    IF cycles'[c].pc = "store"
    THEN <<Entry("quote", c, cycles'[c].sym, cycles'[c].k, <<>>)>>
    ELSE <<>>

\* HttpResponse, recorded.
LedgerHttp(c, outcome, chain) ==
    /\ HttpResponse(c, outcome, chain)
    /\ ledger' = ledger
           \o (IF outcome = "ok"
               THEN <<Entry("chain", c, cycles[c].sym, 0, chain.calls \o chain.puts)>>
               ELSE <<>>)
           \o Issued(c)
    /\ UNCHANGED probe

\* StoreResponse, recorded: unless the write rejected, checkNakedPosition ran
\* on the contract, and called storeNakedPosition if it flagged it.
LedgerStore(c, outcome) ==
    /\ StoreResponse(c, outcome)
    /\ ledger' = ledger
           \o (IF outcome = "throw"
               THEN <<>>
               ELSE <<Entry("check", c, cycles[c].sym, cycles[c].k, <<>>)>>)
           \o (IF cycles'[c].pc = "naked"
               THEN <<Entry("event", c, cycles[c].sym, cycles[c].k, <<>>)>>
               ELSE <<>>)
           \o Issued(c)
    /\ UNCHANGED probe

\* NakedResponse, recorded.
LedgerNaked(c, outcome) ==
    /\ NakedResponse(c, outcome)
    /\ ledger' = ledger \o Issued(c)
    /\ UNCHANGED probe

\* The collector of a signed-in user whose token stays valid and whose
\* requests and writes settle within the polling interval: the timer fires
\* only between cycles.
LedgerNext ==
    \/ storeTokens /\ UNCHANGED aside
    \/ Start /\ UNCHANGED aside
    \/ Tick /\ (\A c \in 1..Len(cycles) : Ended(cycles[c])) /\ UNCHANGED aside
    \/ \E c \in 1..Len(cycles), outcome \in HttpOutcomes, chain \in Chains :
           LedgerHttp(c, outcome, chain)
    \/ \E c \in 1..Len(cycles), outcome \in WriteOutcomes : LedgerStore(c, outcome)
    \/ \E c \in 1..Len(cycles), outcome \in WriteOutcomes : LedgerNaked(c, outcome)

LedgerSpec == Init /\ [][LedgerNext]_vars

\* ------------------------------------------------ the naked-position detector
\* The collector as constructed, nothing recorded.
Idle ==
    /\ isRunning = FALSE
    /\ intervalId = NoTimer
    /\ timers = {}
    /\ timerSeq = 0
    /\ cycles = <<>>
    /\ tokenStore = "none"
    /\ calls = <<>>
    /\ watch = NoWatch
    /\ ledger = <<>>

\* Values NAKED_POSITION_THRESHOLD may configure, as fractions num/den; 3/2 is
\* the default.
Thresholds ==
    { [num |-> -1, den |-> 1], [num |-> 0, den |-> 1], [num |-> 1, den |-> 2],
      [num |-> 1, den |-> 1],
      [num |-> NAKED_THRESHOLD_NUM, den |-> NAKED_THRESHOLD_DEN],
      [num |-> 2, den |-> 1] }

Volumes == 0..MaxQty \cup {140, 200}
OpenInterests == 0..MaxQty \cup {100}

\* A contract and a threshold are chosen; checkNakedPosition has not run yet.
DetectorInit ==
    /\ Idle
    /\ \E volume \in Volumes, oi \in OpenInterests, th \in Thresholds,
          side \in {"CALL", "PUT"} :
          probe = [fn |-> "checkNakedPosition",
                   contract |-> Contract(side, volume, oi),
                   threshold |-> th, out |-> "pending"]

\* checkNakedPosition runs on the chosen contract.
CheckNaked ==
    /\ probe.fn = "checkNakedPosition"
    /\ probe.out = "pending"
    /\ probe' = [probe EXCEPT !.out =
           checkNakedPosition(probe.contract, probe.threshold.num,
                              probe.threshold.den)]
    /\ UNCHANGED <<collectorState, tokenStore, calls, watch, ledger>>

DetectorNext == CheckNaked

DetectorSpec == DetectorInit /\ [][DetectorNext]_vars

\* ------------------------------------------------------------ the max pain
\* A contract as calculateMaxPain reads it.
Leg(strike, oi) == [strikePrice |-> strike, openInterest |-> oi]

\* minPain before any strike was examined (a pain is never negative).
Infinity == -1

\* calls.forEach / puts.forEach of the aggregation: the entry of the
\* contract's strike is created at the end of the Map when the strike is new
\* (a Map iterates in insertion order), and field ("callOI" or "putOI") grows
\* by the contract's open interest.
RECURSIVE Aggregate(_, _, _)
Aggregate(strikeMap, contracts, field) ==
    IF contracts = <<>>
    THEN strikeMap
    ELSE LET contract == Head(contracts)
             existing == \E i \in 1..Len(strikeMap) :
                             strikeMap[i].strike = contract.strikePrice
             keyed == IF existing
                      THEN strikeMap
                      ELSE Append(strikeMap, [strike |-> contract.strikePrice,
                                              callOI |-> 0, putOI |-> 0])
         IN Aggregate(
                [i \in 1..Len(keyed) |->
                    IF keyed[i].strike = contract.strikePrice
                    THEN [keyed[i] EXCEPT ![field] = @ + contract.openInterest]
                    ELSE keyed[i]],
                Tail(contracts), field)

\* The inner loop: the pain at settlement price strike, summed over the
\* entries of the map from entry i on.
RECURSIVE Pain(_, _, _)
Pain(strikeMap, strike, i) ==
    IF i > Len(strikeMap)
    THEN 0
    ELSE LET other == strikeMap[i]
         IN (IF other.strike < strike
             THEN other.callOI * (strike - other.strike) * 100 ELSE 0)
            + (IF other.strike > strike
               THEN other.putOI * (other.strike - strike) * 100 ELSE 0)
            + Pain(strikeMap, strike, i + 1)

\* The outer loop with `minPain = pain` left out: every strike beats Infinity.
RECURSIVE MinPainScan_neverLowers(_, _, _, _)
MinPainScan_neverLowers(strikeMap, i, minPain, maxPainStrike) ==
    IF i > Len(strikeMap)
    THEN maxPainStrike
    ELSE MinPainScan_neverLowers(strikeMap, i + 1, minPain, strikeMap[i].strike)

\* The outer loop with `pain <= minPain`: a later strike wins a tie.
RECURSIVE MinPainScan_lastWins(_, _, _, _)
MinPainScan_lastWins(strikeMap, i, minPain, maxPainStrike) ==
    IF i > Len(strikeMap)
    THEN maxPainStrike
    ELSE LET pain == Pain(strikeMap, strikeMap[i].strike, 1)
         IN IF minPain = Infinity \/ pain <= minPain
            THEN MinPainScan_lastWins(strikeMap, i + 1, pain, strikeMap[i].strike)
            ELSE MinPainScan_lastWins(strikeMap, i + 1, minPain, maxPainStrike)

\* The outer loop from entry i on: a strike replaces the best so far only
\* when its pain is strictly less.
RECURSIVE MinPainScan(_, _, _, _)
MinPainScan(strikeMap, i, minPain, maxPainStrike) ==
    IF i > Len(strikeMap)
    THEN maxPainStrike
    ELSE LET pain == Pain(strikeMap, strikeMap[i].strike, 1)
         IN IF minPain = Infinity \/ pain < minPain
            THEN MinPainScan(strikeMap, i + 1, pain, strikeMap[i].strike)
            ELSE MinPainScan(strikeMap, i + 1, minPain, maxPainStrike)

\* calculateMaxPain(calls, puts)
calculateMaxPain(callContracts, putContracts) ==
    MinPainScan(Aggregate(Aggregate(<<>>, callContracts, "callOI"),
                          putContracts, "putOI"),
                1, Infinity, 0)

PainStrikes == {640, 645, 650}
PainOpenInterests == {0, 2}

\* The contract lists tried: every list of at most MaxLegs contracts, in
\* every order, repeated strikes included.
LegLists ==
    UNION {[1..n -> {Leg(strike, oi) : strike \in PainStrikes,
                                       oi \in PainOpenInterests}] : n \in 0..MaxLegs}

\* Calls at 640, 645, 650 with open interest 100, 50, 30 and puts at the same
\* strikes with open interest 40, 60, 90.
ExampleCalls == <<Leg(640, 100), Leg(645, 50), Leg(650, 30)>>
ExamplePuts == <<Leg(640, 40), Leg(645, 60), Leg(650, 90)>>

\* The calls and puts of a chain are chosen; calculateMaxPain has not run.
MaxPainInit ==
    /\ Idle
    /\ \/ \E calls_ \in LegLists, puts_ \in LegLists :
              probe = [fn |-> "calculateMaxPain", calls |-> calls_, puts |-> puts_,
                       done |-> FALSE, out |-> 0]
       \/ probe = [fn |-> "calculateMaxPain", calls |-> ExampleCalls,
                   puts |-> ExamplePuts, done |-> FALSE, out |-> 0]

\* calculateMaxPain runs on the chosen chain.
MaxPain ==
    /\ probe.fn = "calculateMaxPain"
    /\ ~probe.done
    /\ probe' = [probe EXCEPT !.done = TRUE,
                              !.out = calculateMaxPain(probe.calls, probe.puts)]
    /\ UNCHANGED <<collectorState, tokenStore, calls, watch, ledger>>

MaxPainNext == MaxPain

MaxPainSpec == MaxPainInit /\ [][MaxPainNext]_vars

\* -------------------------------------------------------- the credit spreads
\* Prices per share (bid, ask, creditReceived, breakEven) are in cents, so
\* that 0.50 is 50 and the arithmetic is exact; strikes and widths are in
\* dollars; maxProfit and maxLoss are in dollars per contract of 100 shares
\* (a credit of c cents per share is c dollars per contract).
MIN_CREDIT == 50
MAX_WIDTH == 50
MIN_WIDTH == 5

\* A contract as calculateCreditSpreads reads it.
Option(side, strike, bid, ask) ==
    [putCall |-> side, strikePrice |-> strike, bid |-> bid, ask |-> ask]

Abs(x) == IF x < 0 THEN -x ELSE x

\* a.strikePrice - b.strikePrice ascending, equal strikes kept in input order
\* (Array.prototype.sort is stable).
RECURSIVE InsertByStrike(_, _)
InsertByStrike(sorted, opt) ==
    IF sorted = <<>>
    THEN <<opt>>
    ELSE IF opt.strikePrice < Head(sorted).strikePrice
         THEN <<opt>> \o sorted
         ELSE <<Head(sorted)>> \o InsertByStrike(Tail(sorted), opt)

RECURSIVE SortByStrike(_)
SortByStrike(options) ==
    IF options = <<>>
    THEN <<>>
    ELSE InsertByStrike(SortByStrike(SubSeq(options, 1, Len(options) - 1)),
                        options[Len(options)])

\* The two skip tests without the one on the credit.
Kept_anyCredit(width, creditReceived) ==
    ~(width < MIN_WIDTH \/ width > MAX_WIDTH)

\* The two skip tests with `creditReceived <= MIN_CREDIT`.
Kept_aboveFloor(width, creditReceived) ==
    /\ ~(width < MIN_WIDTH \/ width > MAX_WIDTH)
    /\ ~(creditReceived <= MIN_CREDIT)

\* Neither `continue` is taken: the width is within bounds and the credit is
\* not below MIN_CREDIT.
Kept(width, creditReceived) ==
    /\ ~(width < MIN_WIDTH \/ width > MAX_WIDTH)
    /\ ~(creditReceived < MIN_CREDIT)

\* b over a as fractions with positive denominators: a.num/a.den > b.num/b.den
Greater(a, b) == a.num * b.den > b.num * a.den

\* The record pushed, with the break-even of a CALL spread on either side.
SpreadOpportunity_callBreakEven(optionType, shortOption, longOption) ==
    LET width == Abs(shortOption.strikePrice - longOption.strikePrice)
        creditReceived == shortOption.bid - longOption.ask
        maxProfit == creditReceived
        maxLoss == width * 100 - creditReceived
    IN [spreadType |-> optionType,
        shortStrike |-> shortOption.strikePrice,
        longStrike |-> longOption.strikePrice,
        shortOption |-> shortOption,
        longOption |-> longOption,
        creditReceived |-> creditReceived,
        maxProfit |-> maxProfit,
        maxLoss |-> maxLoss,
        breakEven |-> shortOption.strikePrice * 100 + creditReceived,
        riskRewardRatio |-> IF maxLoss > 0
                            THEN [num |-> maxProfit, den |-> maxLoss]
                            ELSE [num |-> 0, den |-> 1],
        width |-> width]

\* The record pushed for the pair (shortOption, longOption).
SpreadOpportunity(optionType, shortOption, longOption) ==
    LET width == Abs(shortOption.strikePrice - longOption.strikePrice)
        creditReceived == shortOption.bid - longOption.ask
        maxProfit == creditReceived
        maxLoss == width * 100 - creditReceived
    IN [spreadType |-> optionType,
        shortStrike |-> shortOption.strikePrice,
        longStrike |-> longOption.strikePrice,
        shortOption |-> shortOption,
        longOption |-> longOption,
        creditReceived |-> creditReceived,
        maxProfit |-> maxProfit,
        maxLoss |-> maxLoss,
        breakEven |-> IF optionType = "CALL"
                      THEN shortOption.strikePrice * 100 + creditReceived
                      ELSE shortOption.strikePrice * 100 - creditReceived,
        riskRewardRatio |-> IF maxLoss > 0
                            THEN [num |-> maxProfit, den |-> maxLoss]
                            ELSE [num |-> 0, den |-> 1],
        width |-> width]

\* The nested loops from the pair (i, j) on, over the filtered and sorted
\* options: the spreads pushed, in push order.
RECURSIVE PairLoop(_, _, _, _)
PairLoop(filteredOptions, optionType, i, j) ==
    IF i > Len(filteredOptions)
    THEN <<>>
    ELSE IF j > Len(filteredOptions)
         THEN PairLoop(filteredOptions, optionType, i + 1, i + 2)
         ELSE LET opt1 == filteredOptions[i]
                  opt2 == filteredOptions[j]
                  shortOption == IF optionType = "CALL" THEN opt1 ELSE opt2
                  longOption == IF optionType = "CALL" THEN opt2 ELSE opt1
                  spread == SpreadOpportunity(optionType, shortOption, longOption)
              IN (IF Kept(spread.width, spread.creditReceived)
                  THEN <<spread>>
                  ELSE <<>>)
                 \o PairLoop(filteredOptions, optionType, i, j + 1)

\* The final sort with the comparator a.riskRewardRatio - b.riskRewardRatio.
RECURSIVE InsertByRatio_ascending(_, _)
InsertByRatio_ascending(sorted, spread) ==
    IF sorted = <<>>
    THEN <<spread>>
    ELSE IF Greater(Head(sorted).riskRewardRatio, spread.riskRewardRatio)
         THEN <<spread>> \o sorted
         ELSE <<Head(sorted)>> \o InsertByRatio_ascending(Tail(sorted), spread)

\* b.riskRewardRatio - a.riskRewardRatio: descending, equal ratios kept in
\* push order.
RECURSIVE InsertByRatio(_, _)
InsertByRatio(sorted, spread) ==
    IF sorted = <<>>
    THEN <<spread>>
    ELSE IF Greater(spread.riskRewardRatio, Head(sorted).riskRewardRatio)
         THEN <<spread>> \o sorted
         ELSE <<Head(sorted)>> \o InsertByRatio(Tail(sorted), spread)

RECURSIVE SortByRatio(_)
SortByRatio(spreads) ==
    IF spreads = <<>>
    THEN <<>>
    ELSE InsertByRatio(SortByRatio(SubSeq(spreads, 1, Len(spreads) - 1)),
                       spreads[Len(spreads)])

\* calculateCreditSpreads without the filter on putCall.
calculateCreditSpreads_noFilter(options, optionType) ==
    SortByRatio(PairLoop(SortByStrike(options), optionType, 1, 2))

\* calculateCreditSpreads(options, optionType, underlyingPrice); the third
\* parameter is not read.
calculateCreditSpreads(options, optionType) ==
    LET OfType(opt) == opt.putCall = optionType
    IN SortByRatio(PairLoop(SortByStrike(SelectSeq(options, OfType)),
                            optionType, 1, 2))

SpreadStrikes == {645, 650, 700}

\* bid / ask pairs in cents: 2.00 / 1.50, 1.20 / 0.60 and 7.00 / 1.60.  Short
\* bid less long ask is 0.50 (2.00 - 1.50), 0.40 (2.00 - 1.60), 0.60
\* (1.20 - 0.60), negative, or more than a width of 5 (7.00 - 0.60).
Quotes == {[bid |-> 200, ask |-> 150], [bid |-> 120, ask |-> 60],
           [bid |-> 700, ask |-> 160]}

OptionLists ==
    UNION {[1..n -> {Option(side, strike, q.bid, q.ask) :
                        side \in {"CALL", "PUT"}, strike \in SpreadStrikes,
                        q \in Quotes}] : n \in 0..MaxOptions}

\* A call struck at 650 with bid 1.20 and a call struck at 655 with ask 0.60.
ExampleOptions == <<Option("CALL", 650, 120, 130), Option("CALL", 655, 55, 60)>>

\* A list of contracts and a side are chosen; calculateCreditSpreads has not
\* run.
SpreadInit ==
    /\ Idle
    /\ \E options \in OptionLists \cup {ExampleOptions},
          optionType \in {"CALL", "PUT"} :
          probe = [fn |-> "calculateCreditSpreads", options |-> options,
                   optionType |-> optionType, done |-> FALSE, out |-> <<>>]

\* calculateCreditSpreads runs on the chosen list.
CreditSpreads ==
    /\ probe.fn = "calculateCreditSpreads"
    /\ ~probe.done
    /\ probe' = [probe EXCEPT !.done = TRUE,
                              !.out = calculateCreditSpreads(probe.options,
                                                             probe.optionType)]
    /\ UNCHANGED <<collectorState, tokenStore, calls, watch, ledger>>

SpreadNext == CreditSpreads

SpreadSpec == SpreadInit /\ [][SpreadNext]_vars

\* ------------------------------------------------------- the ATM selection
\* ATM_THRESHOLD = 0.02, kept exact as the fraction 2/100
ATM_THRESHOLD_NUM == 2
ATM_THRESHOLD_DEN == 100
\* slice(0, 3)
NearestCount == 3

\* percentDistance <= ATM_THRESHOLD, where percentDistance is
\* distance / underlyingPrice: for a positive price the quotient compares as
\* the cross product; a zero price gives Infinity (or NaN for distance 0),
\* which never passes; a negative price gives a quotient that is not
\* positive, which always passes.
isATM(distance, underlyingPrice) ==
    CASE underlyingPrice > 0 ->
             distance * ATM_THRESHOLD_DEN <= ATM_THRESHOLD_NUM * underlyingPrice
      [] underlyingPrice = 0 -> FALSE
      [] OTHER -> TRUE

\* The object the map callback returns for a contract.
ATMOption(symbol, optionType, contract, underlyingPrice) ==
    [symbol |-> symbol,
     optionType |-> optionType,
     contract |-> contract,
     distanceFromATM |-> Abs(contract.strikePrice - underlyingPrice),
     isATM |-> isATM(Abs(contract.strikePrice - underlyingPrice), underlyingPrice)]

\* map(contract => ...) over a list
MapATM(symbol, optionType, options, underlyingPrice) ==
    [i \in 1..Len(options) |->
        ATMOption(symbol, optionType, options[i], underlyingPrice)]

\* a.distanceFromATM - b.distanceFromATM ascending, equal distances kept in
\* list order.
RECURSIVE InsertByDistance(_, _)
InsertByDistance(sorted, opt) ==
    IF sorted = <<>>
    THEN <<opt>>
    ELSE IF opt.distanceFromATM < Head(sorted).distanceFromATM
         THEN <<opt>> \o sorted
         ELSE <<Head(sorted)>> \o InsertByDistance(Tail(sorted), opt)

RECURSIVE SortByDistance(_)
SortByDistance(options) ==
    IF options = <<>>
    THEN <<>>
    ELSE InsertByDistance(SortByDistance(SubSeq(options, 1, Len(options) - 1)),
                          options[Len(options)])

\* slice(0, n)
Slice(seq, n) == SubSeq(seq, 1, IF Len(seq) < n THEN Len(seq) ELSE n)

\* findNearestStrikes without the slice.
findNearestStrikes_noSlice(symbol, options, optionType, underlyingPrice) ==
    LET OfType(opt) == opt.putCall = optionType
        IsATM(opt) == opt.isATM
    IN SortByDistance(SelectSeq(
           MapATM(symbol, optionType, SelectSeq(options, OfType), underlyingPrice),
           IsATM))

\* findNearestStrikes that slices before it sorts.
findNearestStrikes_sliceFirst(symbol, options, optionType, underlyingPrice) ==
    LET OfType(opt) == opt.putCall = optionType
        IsATM(opt) == opt.isATM
    IN SortByDistance(Slice(SelectSeq(
           MapATM(symbol, optionType, SelectSeq(options, OfType), underlyingPrice),
           IsATM), NearestCount))

\* The closure findNearestStrikes(options, optionType) of findATMOptions:
\* filter by side, map, filter by isATM, sort by distance, slice.
findNearestStrikes(symbol, options, optionType, underlyingPrice) ==
    LET OfType(opt) == opt.putCall = optionType
        IsATM(opt) == opt.isATM
    IN Slice(SortByDistance(SelectSeq(
           MapATM(symbol, optionType, SelectSeq(options, OfType), underlyingPrice),
           IsATM)), NearestCount)

\* findATMOptions(symbol, calls, puts, underlyingPrice)
findATMOptions(symbol, callContracts, putContracts, underlyingPrice) ==
    [atmCalls |-> findNearestStrikes(symbol, callContracts, "CALL", underlyingPrice),
     atmPuts |-> findNearestStrikes(symbol, putContracts, "PUT", underlyingPrice)]

\* A contract as findATMOptions reads it.
AtmContract(side, strike) == [putCall |-> side, strikePrice |-> strike]

\* Around a price of 100: 97 is out of range, 99 and 100 are within, 102 is
\* at the 2% boundary.
AtmStrikes == {97, 99, 100, 102}
UnderlyingPrices == {0, 100}

AtmLists(n) ==
    [1..n -> {AtmContract(side, strike) :
                 side \in {"CALL", "PUT"}, strike \in AtmStrikes}]

\* The calls, the puts and the underlying price are chosen; findATMOptions
\* has not run.
AtmInit ==
    /\ Idle
    /\ \E n \in 0..MaxAtm, m \in 0..MaxAtm :
          /\ n + m <= MaxAtm
          /\ \E callContracts \in AtmLists(n), putContracts \in AtmLists(m),
                underlyingPrice \in UnderlyingPrices :
                probe = [fn |-> "findATMOptions", calls |-> callContracts,
                         puts |-> putContracts, spot |-> underlyingPrice,
                         done |-> FALSE,
                         out |-> [atmCalls |-> <<>>, atmPuts |-> <<>>]]

\* findATMOptions runs on the chosen chain.
FindATM ==
    /\ probe.fn = "findATMOptions"
    /\ ~probe.done
    /\ probe' = [probe EXCEPT !.done = TRUE,
                              !.out = findATMOptions("SPY", probe.calls, probe.puts,
                                                     probe.spot)]
    /\ UNCHANGED <<collectorState, tokenStore, calls, watch, ledger>>

AtmNext == FindATM

AtmSpec == AtmInit /\ [][AtmNext]_vars

\* ----------------------------------------------------------- the order flow
\* analyzeOrderFlow that looks at the spread only, not at the volume.
analyzeOrderFlow_anyVolume(option) ==
    LET volume == option.contract.totalVolume
        openInterest == option.contract.openInterest
        volumeOIRatio == IF openInterest > 0
                         THEN [num |-> volume, den |-> openInterest]
                         ELSE [num |-> 0, den |-> 1]
        hasUnusualVolume == volumeOIRatio.num * 2 > volumeOIRatio.den
    IN [hasUnusualVolume |-> hasUnusualVolume,
        volumeOIRatio |-> volumeOIRatio,
        signal |->
            IF option.optionType = "CALL"
                  /\ option.contract.bid * 10 > option.contract.ask * 9
            THEN "BULLISH"
            ELSE IF option.optionType = "PUT"
                       /\ option.contract.bid * 10 > option.contract.ask * 9
                 THEN "BEARISH"
                 ELSE "NEUTRAL"]

\* analyzeOrderFlow: volumeOIRatio is volume / openInterest (0 when open
\* interest is not positive), kept as a fraction; hasUnusualVolume is
\* ratio > 0.5; bid > ask * 0.9 is compared as bid * 10 > ask * 9.
analyzeOrderFlow(option) ==
    LET volume == option.contract.totalVolume
        openInterest == option.contract.openInterest
        volumeOIRatio == IF openInterest > 0
                         THEN [num |-> volume, den |-> openInterest]
                         ELSE [num |-> 0, den |-> 1]
        hasUnusualVolume == volumeOIRatio.num * 2 > volumeOIRatio.den
    IN [hasUnusualVolume |-> hasUnusualVolume,
        volumeOIRatio |-> volumeOIRatio,
        signal |->
            IF hasUnusualVolume
            THEN IF option.optionType = "CALL"
                       /\ option.contract.bid * 10 > option.contract.ask * 9
                 THEN "BULLISH"
                 ELSE IF option.optionType = "PUT"
                            /\ option.contract.bid * 10 > option.contract.ask * 9
                      THEN "BEARISH"
                      ELSE "NEUTRAL"
            ELSE "NEUTRAL"]

\* bid and ask in cents: at an ask of 1.00 a bid of 0.90 is at the 0.9
\* boundary and 0.91 is above it.
FlowBids == {0, 90, 91, 100}
FlowAsks == {0, 100}

\* An ATM option is chosen; analyzeOrderFlow has not run.
FlowInit ==
    /\ Idle
    /\ \E side \in {"CALL", "PUT"}, volume \in Volumes, oi \in OpenInterests,
          bid \in FlowBids, ask \in FlowAsks :
          probe = [fn |-> "analyzeOrderFlow",
                   option |-> [optionType |-> side,
                               contract |-> [putCall |-> side,
                                             totalVolume |-> volume,
                                             openInterest |-> oi,
                                             bid |-> bid, ask |-> ask]],
                   done |-> FALSE,
                   out |-> [hasUnusualVolume |-> FALSE,
                            volumeOIRatio |-> [num |-> 0, den |-> 1],
                            signal |-> "NEUTRAL"]]

\* analyzeOrderFlow runs on the chosen option.
OrderFlow ==
    /\ probe.fn = "analyzeOrderFlow"
    /\ ~probe.done
    /\ probe' = [probe EXCEPT !.done = TRUE, !.out = analyzeOrderFlow(probe.option)]
    /\ UNCHANGED <<collectorState, tokenStore, calls, watch, ledger>>

FlowNext == OrderFlow

FlowSpec == FlowInit /\ [][FlowNext]_vars

\* -------------------------------------------------------- the AI orchestrator
TaskTypes ==
    {"credit_spread_analysis", "trade_prediction", "pattern_recognition",
     "risk_assessment", "market_sentiment", "portfolio_optimization"}

NoModel == "none"      \* strategy.fallback is undefined

getModelStrategy(taskType) ==
    CASE taskType \in {"credit_spread_analysis", "risk_assessment",
                       "portfolio_optimization"} ->
             [primary |-> "openai", fallback |-> "gemini"]
      [] taskType \in {"trade_prediction", "pattern_recognition",
                       "market_sentiment"} ->
             [primary |-> "gemini", fallback |-> "openai"]
      [] OTHER -> [primary |-> "openai", fallback |-> NoModel]

\* `${provider}-${provider === 'openai' ? this.openaiModel : this.geminiModel}`
\* under the default model names
ModelId(provider) ==
    IF provider = "openai" THEN "openai-gpt-5" ELSE "gemini-gemini-3-pro"

\* What a model may answer with: text holding a JSON object with a score and
\* a confidence ("json"), text without braces ("text"), or text whose braces
\* do not hold valid JSON ("broken").
Responses ==
    {[kind |-> "json", score |-> score, confidence |-> confidence] :
        score \in {0, 85}, confidence \in {0, 90}}
    \cup {[kind |-> "text", score |-> 0, confidence |-> 0],
          [kind |-> "broken", score |-> 0, confidence |-> 0]}

NoResponse == [kind |-> "none", score |-> 0, confidence |-> 0]

\* One invocation of execute:
\*   pc        "idle" (not called), the await it is suspended at ("primary",
\*             "fallback": callOpenAI / callGemini; "log": logAICall's insert),
\*             or how it ended: "returned" / "thrown"
\*   after     what follows the insert awaited at "log"
\*   calls_    (history) the providers called, in call order
\*   failed    (history) the providers whose call threw
\*   response, model  the fields of the value returned
\*   error     the message of the error thrown
Execution(taskType, logging) ==
    [taskType |-> taskType, logging |-> logging, pc |-> "idle", after |-> "none",
     calls_ |-> <<>>, failed |-> {}, response |-> NoResponse, model |-> "none",
     error |-> "none"]

\* execute up to its first await: the call of the primary model.
execute(exec) ==
    [exec EXCEPT !.pc = "primary",
                 !.calls_ = Append(@, getModelStrategy(exec.taskType).primary)]

\* await this.logAICall(...) and then outcome ("returned" or "thrown"):
\* logAICall returns at once when no log store is configured.
ThenLog(exec, outcome) ==
    IF exec.logging
    THEN [exec EXCEPT !.pc = "log", !.after = outcome]
    ELSE [exec EXCEPT !.pc = outcome]

\* A model call returned response: it is logged and returned, but always
\* under the primary model's name.
ModelSucceeds_primaryName(exec, response) ==
    ThenLog([exec EXCEPT !.response = response,
                         !.model = ModelId(getModelStrategy(exec.taskType).primary)],
            "returned")

\* The awaited model call returned response: it is logged and returned under
\* the name of the model that was called.
ModelSucceeds(exec, response) ==
    LET provider == IF exec.pc = "primary"
                    THEN getModelStrategy(exec.taskType).primary
                    ELSE getModelStrategy(exec.taskType).fallback
    IN ThenLog([exec EXCEPT !.response = response, !.model = ModelId(provider)],
               "returned")

\* The awaited model call threw: after the primary, the fallback is called if
\* there is one, else the failure is logged and the error rethrown; after the
\* fallback, the failure is logged and 'All AI models failed' thrown.
ModelFails(exec) ==
    LET strategy == getModelStrategy(exec.taskType)
    IN IF exec.pc = "primary"
       THEN IF strategy.fallback # NoModel
            THEN [exec EXCEPT !.pc = "fallback",
                              !.failed = @ \cup {strategy.primary},
                              !.calls_ = Append(@, strategy.fallback)]
            ELSE ThenLog([exec EXCEPT !.failed = @ \cup {strategy.primary},
                                      !.error = "primary error"], "thrown")
       ELSE ThenLog([exec EXCEPT !.failed = @ \cup {strategy.fallback},
                                 !.error = "All AI models failed"], "thrown")

\* The insert awaited by logAICall settled, or threw into logAICall's catch.
LogSettles(exec) == [exec EXCEPT !.pc = exec.after, !.after = "none"]

\* A task type (one outside the enumeration included) and whether a log
\* store is configured are chosen; execute has not been called.
ExecuteInit ==
    /\ Idle
    /\ \E taskType \in TaskTypes \cup {"general"}, logging \in BOOLEAN :
          probe = [fn |-> "execute", exec |-> Execution(taskType, logging)]

ExecuteCall ==
    /\ probe.fn = "execute"
    /\ probe.exec.pc = "idle"
    /\ probe' = [probe EXCEPT !.exec = execute(@)]
    /\ UNCHANGED <<collectorState, tokenStore, calls, watch, ledger>>

ExecuteModelReturns(response) ==
    /\ probe.fn = "execute"
    /\ probe.exec.pc \in {"primary", "fallback"}
    /\ probe' = [probe EXCEPT !.exec = ModelSucceeds(@, response)]
    /\ UNCHANGED <<collectorState, tokenStore, calls, watch, ledger>>

ExecuteModelThrows ==
    /\ probe.fn = "execute"
    /\ probe.exec.pc \in {"primary", "fallback"}
    /\ probe' = [probe EXCEPT !.exec = ModelFails(@)]
    /\ UNCHANGED <<collectorState, tokenStore, calls, watch, ledger>>

ExecuteLogSettles ==
    /\ probe.fn = "execute"
    /\ probe.exec.pc = "log"
    /\ probe' = [probe EXCEPT !.exec = LogSettles(@)]
    /\ UNCHANGED <<collectorState, tokenStore, calls, watch, ledger>>

ExecuteNext ==
    \/ ExecuteCall
    \/ \E response \in Responses : ExecuteModelReturns(response)
    \/ ExecuteModelThrows
    \/ ExecuteLogSettles

ExecuteSpec == ExecuteInit /\ [][ExecuteNext]_vars

\* ------------------------------------------------- scoring a batch of spreads
TOP_SPREADS_COUNT == 20

\* x || 50
OrDefault(x) == IF x = 0 THEN 50 ELSE x

\* analyzeSpreadWithAI that takes the score and the confidence as parsed.
analyzeSpreadWithAI_asParsed(exec) ==
    IF exec.pc = "thrown" \/ exec.response.kind = "broken"
    THEN [score |-> 0, confidence |-> 0, model |-> "error"]
    ELSE IF exec.response.kind = "json"
         THEN [score |-> exec.response.score,
               confidence |-> exec.response.confidence, model |-> exec.model]
         ELSE [score |-> 50, confidence |-> 50, model |-> exec.model]

\* analyzeSpreadWithAI once its call of execute has ended: the catch block
\* answers a throw of execute and a throw of JSON.parse alike; a parsed
\* object gives its score and confidence, 50 standing in for a missing or
\* zero value; a response without a JSON object gives 50 and 50.
analyzeSpreadWithAI(exec) ==
    IF exec.pc = "thrown" \/ exec.response.kind = "broken"
    THEN [score |-> 0, confidence |-> 0, model |-> "error"]
    ELSE IF exec.response.kind = "json"
         THEN [score |-> OrDefault(exec.response.score),
               confidence |-> OrDefault(exec.response.confidence),
               model |-> exec.model]
         ELSE [score |-> 50, confidence |-> 50, model |-> exec.model]

\* (b.aiScore || 0) - (a.aiScore || 0): descending, ties in input order.
RECURSIVE InsertByScore(_, _)
InsertByScore(sorted, analyzed) ==
    IF sorted = <<>>
    THEN <<analyzed>>
    ELSE IF analyzed.aiScore > Head(sorted).aiScore
         THEN <<analyzed>> \o sorted
         ELSE <<Head(sorted)>> \o InsertByScore(Tail(sorted), analyzed)

RECURSIVE SortByScore(_)
SortByScore(analyzed) ==
    IF analyzed = <<>>
    THEN <<>>
    ELSE InsertByScore(SortByScore(SubSeq(analyzed, 1, Len(analyzed) - 1)),
                       analyzed[Len(analyzed)])

\* The spreads findBestSpreads hands to the scorer: the first 10 call spreads
\* and the first 10 put spreads.
TopSpreads(callContracts, putContracts) ==
    Slice(calculateCreditSpreads(callContracts, "CALL"), TOP_SPREADS_COUNT \div 2)
    \o Slice(calculateCreditSpreads(putContracts, "PUT"), TOP_SPREADS_COUNT \div 2)

\* One invocation of findBestSpreads:
\*   pc       "idle", the await it is suspended at ("scoring": inside
\*            analyzeSpreadWithAI's execute; "storing": storeCreditSpread's
\*            insert), or how it ended: "returned" / "rejected"
\*   i        the loop index, from 1
\*   scored   (history) how the scorer answered for each spread so far:
\*            "threw", or the kind of the response
\*   analyzedSpreads  the array built, and returned once sorted
Batch(callContracts, putContracts, logging, connected) ==
    [fn |-> "findBestSpreads", calls |-> callContracts, puts |-> putContracts,
     logging |-> logging, connected |-> connected, pc |-> "idle",
     topSpreads |-> <<>>, i |-> 0,
     exec |-> Execution("credit_spread_analysis", logging),
     scored |-> <<>>, analyzedSpreads |-> <<>>]

\* The loop reaches index i: past the end it sorts and returns, else it
\* calls analyzeSpreadWithAI, which calls execute.
LoopAt(batch, i) ==
    IF i > Len(batch.topSpreads)
    THEN [batch EXCEPT !.pc = "returned", !.i = i,
                       !.analyzedSpreads = SortByScore(@)]
    ELSE [batch EXCEPT !.pc = "scoring", !.i = i,
                       !.exec = execute(Execution("credit_spread_analysis",
                                                  batch.logging))]

\* findBestSpreads up to its first await.
findBestSpreads(batch) ==
    LoopAt([batch EXCEPT !.topSpreads = TopSpreads(batch.calls, batch.puts)], 1)

\* execute moved to exec.  While it is suspended so is the loop; once it has
\* ended, the analysis is pushed with the spread and storeCreditSpread is
\* called, which returns at once when the store is not connected.
AfterExecute(batch, exec) ==
    IF exec.pc \notin {"returned", "thrown"}
    THEN [batch EXCEPT !.exec = exec]
    ELSE LET aiAnalysis == analyzeSpreadWithAI(exec)
             analyzed == [spread |-> batch.topSpreads[batch.i],
                          aiScore |-> aiAnalysis.score,
                          aiConfidence |-> aiAnalysis.confidence,
                          aiModelUsed |-> aiAnalysis.model]
             pushed == [batch EXCEPT
                           !.exec = exec,
                           !.scored = Append(@, IF exec.pc = "thrown" THEN "threw"
                                                ELSE exec.response.kind),
                           !.analyzedSpreads = Append(@, analyzed)]
         IN IF batch.connected
            THEN [pushed EXCEPT !.pc = "storing"]
            ELSE LoopAt(pushed, batch.i + 1)

\* Chains whose every pair of neighbours is a spread of width 5 and credit
\* 0.90.
CallChain ==
    <<Option("CALL", 650, 300, 310), Option("CALL", 655, 200, 210),
      Option("CALL", 660, 100, 110)>>

PutChain ==
    <<Option("PUT", 640, 100, 110), Option("PUT", 645, 200, 210),
      Option("PUT", 650, 300, 310)>>

\* Prefixes of the two chains that give at most MaxBatch spreads, whether a
\* log store is configured and whether the store is connected are chosen;
\* findBestSpreads has not been called.
BatchInit ==
    /\ Idle
    /\ \E nc \in 0..3, np \in 0..3, logging \in BOOLEAN, connected \in BOOLEAN :
          /\ Len(TopSpreads(SubSeq(CallChain, 1, nc), SubSeq(PutChain, 1, np)))
                 <= MaxBatch
          /\ probe = Batch(SubSeq(CallChain, 1, nc), SubSeq(PutChain, 1, np),
                           logging, connected)

BatchCall ==
    /\ probe.fn = "findBestSpreads"
    /\ probe.pc = "idle"
    /\ probe' = findBestSpreads(probe)
    /\ UNCHANGED <<collectorState, tokenStore, calls, watch, ledger>>

BatchModelReturns(response) ==
    /\ probe.fn = "findBestSpreads"
    /\ probe.pc = "scoring"
    /\ probe.exec.pc \in {"primary", "fallback"}
    /\ probe' = AfterExecute(probe, ModelSucceeds(probe.exec, response))
    /\ UNCHANGED <<collectorState, tokenStore, calls, watch, ledger>>

BatchModelThrows ==
    /\ probe.fn = "findBestSpreads"
    /\ probe.pc = "scoring"
    /\ probe.exec.pc \in {"primary", "fallback"}
    /\ probe' = AfterExecute(probe, ModelFails(probe.exec))
    /\ UNCHANGED <<collectorState, tokenStore, calls, watch, ledger>>

BatchLogSettles ==
    /\ probe.fn = "findBestSpreads"
    /\ probe.pc = "scoring"
    /\ probe.exec.pc = "log"
    /\ probe' = AfterExecute(probe, LogSettles(probe.exec))
    /\ UNCHANGED <<collectorState, tokenStore, calls, watch, ledger>>

\* The insert of storeCreditSpread settled, with the row or with the store's
\* error: storeCreditSpread returns and the loop goes on.
BatchStoreSettles ==
    /\ probe.fn = "findBestSpreads"
    /\ probe.pc = "storing"
    /\ probe' = LoopAt(probe, probe.i + 1)
    /\ UNCHANGED <<collectorState, tokenStore, calls, watch, ledger>>

\* The insert of storeCreditSpread rejected: nothing catches it on the way
\* out of findBestSpreads.
BatchStoreRejects ==
    /\ probe.fn = "findBestSpreads"
    /\ probe.pc = "storing"
    /\ probe' = [probe EXCEPT !.pc = "rejected"]
    /\ UNCHANGED <<collectorState, tokenStore, calls, watch, ledger>>

BatchNext ==
    \/ BatchCall
    \/ \E response \in Responses : BatchModelReturns(response)
    \/ BatchModelThrows
    \/ BatchLogSettles
    \/ BatchStoreSettles
    \/ BatchStoreRejects

BatchSpec == BatchInit /\ [][BatchNext]_vars

\* ------------------------------------------------------------- OAuth states
\* Time is counted in steps of five minutes; Date.now() is positive.
TEN_MINUTES == 2
SWEEP_EVERY == 1

\* stateStore.get(state) of a state the map does not hold
Absent == -1

\* The strings generateState returns are numbered in the order of issue: two
\* calls never return the same string.  0 is a string it never returns.
StateStrings == 0..MaxStates

\* generateState: the new state is stored with the time of issue.
generateState(stateStore, state, now) == [stateStore EXCEPT ![state] = now]

\* verifyState that does not delete the state it accepts.
verifyState_keepsState(stateStore, state, now) ==
    LET timestamp == stateStore[state]
    IN IF timestamp = Absent \/ timestamp = 0
       THEN [stateStore |-> stateStore, result |-> FALSE]
       ELSE IF timestamp < now - TEN_MINUTES
            THEN [stateStore |-> [stateStore EXCEPT ![state] = Absent],
                  result |-> FALSE]
            ELSE [stateStore |-> stateStore, result |-> TRUE]

\* verifyState: false for a state the map does not hold; a state stored more
\* than ten minutes ago is deleted and refused; any other is deleted and
\* accepted.
verifyState(stateStore, state, now) ==
    LET timestamp == stateStore[state]
    IN IF timestamp = Absent \/ timestamp = 0
       THEN [stateStore |-> stateStore, result |-> FALSE]
       ELSE IF timestamp < now - TEN_MINUTES
            THEN [stateStore |-> [stateStore EXCEPT ![state] = Absent],
                  result |-> FALSE]
            ELSE [stateStore |-> [stateStore EXCEPT ![state] = Absent],
                  result |-> TRUE]

\* The callback of the cleanup interval.
cleanup(stateStore, now) ==
    [state \in StateStrings |->
        IF stateStore[state] # Absent /\ stateStore[state] < now - TEN_MINUTES
        THEN Absent
        ELSE stateStore[state]]

\* The module has just been loaded: the map is empty and the cleanup
\* interval armed.
\*   issued       (history) how many states generateState has returned
\*   issuedAt     (history) when each state was issued
\*   accepted     (history) how often verifyState returned true for a state
\*   acceptedAt   (history) when it last did
\*   verified, result  the argument and return value of the last verifyState
StateInit ==
    /\ Idle
    /\ probe = [fn |-> "stateStore", now |-> 1, nextSweep |-> 1 + SWEEP_EVERY,
                stateStore |-> [state \in StateStrings |-> Absent],
                issued |-> 0,
                issuedAt |-> [state \in StateStrings |-> Absent],
                accepted |-> [state \in StateStrings |-> 0],
                acceptedAt |-> [state \in StateStrings |-> Absent],
                verified |-> 0, result |-> FALSE]

\* Five minutes pass.
ClockTicks ==
    /\ probe.fn = "stateStore"
    /\ probe.now < MaxTime
    /\ probe' = [probe EXCEPT !.now = @ + 1]
    /\ UNCHANGED <<collectorState, tokenStore, calls, watch, ledger>>

GenerateState ==
    /\ probe.fn = "stateStore"
    /\ probe.issued < MaxStates
    /\ LET state == probe.issued + 1
       IN probe' = [probe EXCEPT
                       !.stateStore = generateState(@, state, probe.now),
                       !.issued = state,
                       !.issuedAt[state] = probe.now]
    /\ UNCHANGED <<collectorState, tokenStore, calls, watch, ledger>>

\* verifyState is called with any string: one issued, one not yet issued, or
\* one never issued.
VerifyState(state) ==
    /\ probe.fn = "stateStore"
    /\ LET verdict == verifyState(probe.stateStore, state, probe.now)
       IN probe' = [probe EXCEPT
                       !.stateStore = verdict.stateStore,
                       !.verified = state,
                       !.result = verdict.result,
                       !.accepted[state] =
                           IF verdict.result THEN @ + 1 ELSE @,
                       !.acceptedAt[state] =
                           IF verdict.result THEN probe.now ELSE @]
    /\ UNCHANGED <<collectorState, tokenStore, calls, watch, ledger>>

\* The cleanup interval fires, on time or late, and is due again five
\* minutes on.
Cleanup ==
    /\ probe.fn = "stateStore"
    /\ probe.now >= probe.nextSweep
    /\ probe' = [probe EXCEPT !.stateStore = cleanup(@, probe.now),
                              !.nextSweep = probe.now + SWEEP_EVERY]
    /\ UNCHANGED <<collectorState, tokenStore, calls, watch, ledger>>

StateNext ==
    \/ ClockTicks
    \/ GenerateState
    \/ \E state \in StateStrings : VerifyState(state)
    \/ Cleanup

StateSpec == StateInit /\ [][StateNext]_vars

\* ------------------------------------------------------------------ claims
\* The step is a call of op (it extends the call log by that call).
Called(op) ==
    /\ Len(calls') = Len(calls) + 1
    /\ calls'[Len(calls')].op = op

InFlightCycles == {c \in 1..Len(cycles) : InFlight(cycles[c])}

Count(seq, x) == Cardinality({i \in 1..Len(seq) : seq[i] = x})

\* The step delivers a fetch failure to cycle c: a failed token refresh, a
\* non-success response, or a transport / parse error.
FetchFails(c) ==
    \/ RefreshResponse(c, FALSE)
    \/ \E outcome \in HttpOutcomes \ {"ok"}, chain \in Chains :
           HttpResponse(c, outcome, chain)

\* The step delivers a failed persistence write to cycle c.
WriteFails(c) ==
    \E outcome \in WriteOutcomes \ {"data"} :
        StoreResponse(c, outcome) \/ NakedResponse(c, outcome)

\* Some step that resumes cycle c.
CycleStep(c) ==
    \/ \E ok \in BOOLEAN : RefreshResponse(c, ok)
    \/ \E outcome \in HttpOutcomes, chain \in Chains : HttpResponse(c, outcome, chain)
    \/ \E outcome \in WriteOutcomes : StoreResponse(c, outcome)
    \/ \E outcome \in WriteOutcomes : NakedResponse(c, outcome)

\* C1: after any sequence of start and stop calls at most one repeating timer
\* is armed, and start on a RUNNING collector arms no timer and begins no
\* cycle: it leaves the timer table, the handle, the flag and the cycles as
\* they were.
C1_OneTimerIdempotentStart ==
    /\ [](Cardinality(timers) <= 1)
    /\ [][(Called("start") /\ isRunning) =>
             UNCHANGED <<timers, intervalId, isRunning, timerSeq, cycles>>]_vars

\* start was called twice in a row: one timer is armed, one cycle was begun.
C1_Witness ==
    /\ Len(calls) >= 2
    /\ calls[1].op = "start"
    /\ calls[2].op = "start"
    /\ Cardinality(timers) = 1
    /\ Len(cycles) = 1

\* C2: at most one collection cycle is in progress at any time (a timer tick
\* that arrives while a cycle is still awaiting a fetch or a write does not
\* begin a second cycle).
C2_OneCycleAtATime ==
    Cardinality(InFlightCycles) <= 1

C4_StartBeginsCycleThenArms ==
    [][(Called("start") /\ ~isRunning) =>
          /\ Len(cycles') = Len(cycles) + 1
          /\ SubSeq(cycles', 1, Len(cycles)) = cycles
          /\ cycles'[Len(cycles')].by = "start"
          /\ cycles'[Len(cycles')].fetchLog # <<>>
          /\ cycles'[Len(cycles')].fetchLog[1] = TRACKED_SYMBOLS[1]
          /\ intervalId' # NoTimer
          /\ \A t \in timers : t.id # intervalId'
          /\ timers' = timers \cup {[id |-> intervalId', ms |-> POLLING_INTERVAL]}
          /\ isRunning']_vars

\* start was called once on the fresh collector.
C4_Witness ==
    /\ Len(calls) = 1
    /\ calls[1].op = "start"
    /\ isRunning
    /\ Len(cycles) = 1
    /\ cycles[1].by = "start"
    /\ Cardinality(timers) = 1

\* C5: stop on a STOPPED collector returns normally and changes neither the
\* running flag, nor the timer handle, nor the timers, nor any cycle, nor
\* the token store.
C5_StopWhileStoppedIsNoOp ==
    [][(Called("stop") /\ ~isRunning) =>
          /\ calls'[Len(calls')].res = "ok"
          /\ UNCHANGED <<isRunning, intervalId, timers, timerSeq, cycles, tokenStore>>]_vars

\* stop was called twice in a row.
C5_Witness ==
    /\ Len(calls) >= 2
    /\ calls[Len(calls) - 1].op = "stop"
    /\ calls[Len(calls)].op = "stop"
    /\ ~isRunning

\* C6: in every collection cycle each tracked symbol is fetched exactly once:
\* never twice, and once the cycle has ended, once.
C6_EachSymbolFetchedOnce ==
    \A c \in 1..Len(cycles) : \A i \in 1..Len(TRACKED_SYMBOLS) :
        /\ Count(cycles[c].fetchLog, TRACKED_SYMBOLS[i]) <= 1
        /\ Ended(cycles[c]) => Count(cycles[c].fetchLog, TRACKED_SYMBOLS[i]) = 1

\* C7: a persistence write that fails for one contract (by returning the
\* store's error or by raising) does not end the cycle: no exception leaves
\* collectData, which goes on with the remaining contracts and symbols.
C7_WriteFailureSparesSiblings ==
    [][\A c \in 1..Len(cycles) : WriteFails(c) => cycles'[c].pc # "aborted"]_vars

\* C8: a failed fetch (failed refresh, non-success response, transport error)
\* never rejects the cycle: fetchOptionsChain yields null and the loop goes on
\* to the next symbol, or returns after the last one; and with no credential
\* at all a cycle that begins or moves on runs through every remaining symbol
\* and returns.
C8_FetchFailureIsNull ==
    /\ [][\A c \in 1..Len(cycles) : FetchFails(c) =>
             /\ cycles'[c].pc # "aborted"
             /\ cycles'[c].sym > cycles[c].sym
             /\ IF cycles[c].sym < Len(TRACKED_SYMBOLS)
                THEN /\ Len(cycles'[c].fetchLog) > Len(cycles[c].fetchLog)
                     /\ cycles'[c].fetchLog[Len(cycles[c].fetchLog) + 1]
                            = TRACKED_SYMBOLS[cycles[c].sym + 1]
                ELSE cycles'[c].pc = "done"]_vars
    /\ [][\A c \in 1..Len(cycles') :
             (/\ tokenStore = "none"
              /\ tokenStore' = "none"
              /\ IF c > Len(cycles) THEN TRUE ELSE cycles'[c].sym > cycles[c].sym)
             => (/\ cycles'[c].pc = "done"
                 /\ cycles'[c].fetchLog = TRACKED_SYMBOLS)]_vars

\* No credential is stored and the only cycle has called the fetch of every
\* symbol, got null for the last one, and returned.
C8_Witness ==
    /\ Len(cycles) = 1
    /\ tokenStore = "none"
    /\ watch = [sym |-> Len(TRACKED_SYMBOLS), cycle |-> 0]
    /\ cycles[1].fetchLog = TRACKED_SYMBOLS
    /\ cycles[1].pc = "done"

\* C9: within one cycle the symbols are fetched one after the other in list
\* order: a cycle never has two chain requests outstanding, none while it is
\* processing contracts, and it calls the next fetch only when the previous
\* request is settled and the last contract of the previous chain is done.
C9_SequentialInListOrder ==
    /\ [](\A c \in 1..Len(cycles) :
            /\ Cardinality(cycles[c].out) <= 1
            /\ cycles[c].fetchLog = SubSeq(TRACKED_SYMBOLS, 1, Len(cycles[c].fetchLog))
            /\ cycles[c].out # {} =>
                   /\ cycles[c].pc = "http"
                   /\ cycles[c].out = {cycles[c].fetchLog[Len(cycles[c].fetchLog)]}
            /\ cycles[c].pc \in {"store", "naked"} => cycles[c].out = {})
    /\ [][\A c \in 1..Len(cycles) :
             Len(cycles'[c].fetchLog) > Len(cycles[c].fetchLog) =>
                 /\ cycles[c].out \cap cycles'[c].out = {}
                 /\ cycles[c].pc \in {"store", "naked"} =>
                        /\ cycles[c].k = Len(cycles[c].contracts)
                        /\ cycles[c].pc = "store" =>
                               ~IsNaked(cycles[c].contracts[cycles[c].k])]_vars

\* A cycle whose first symbol was fetched and handled without failure is
\* awaiting the chain of the second symbol.
C9_Witness ==
    /\ Len(cycles) = 1
    /\ watch = NoWatch
    /\ Len(cycles[1].fetchLog) = 2
    /\ cycles[1].pc = "http"
    /\ cycles[1].out = {TRACKED_SYMBOLS[2]}

\* C10: when the fetch of a symbol (here the last of the list) has failed and
\* the collector, still RUNNING, then begins the next cycle from its timer,
\* that cycle fetches the symbol again.
C10_FailedSymbolFetchedNextCycle ==
    (watch.cycle > 0 /\ Ended(cycles[watch.cycle])) =>
        Count(cycles[watch.cycle].fetchLog, TRACKED_SYMBOLS[watch.sym]) >= 1

\* The number of ledger entries of one kind for contract k of the chain of
\* symbol sym in cycle c.
Tally(what, c, sym, k) ==
    Cardinality({i \in 1..Len(ledger) :
        ledger[i] = Entry(what, c, sym, k, <<>>)})

\* C13: for every contract (call or put) of a successfully fetched chain the
\* cycle attempts to persist the raw quote exactly once and runs the anomaly
\* detector exactly once: never twice, and once the cycle has ended, once.
C13_EachContractStoredAndCheckedOnce ==
    \A i \in 1..Len(ledger) : ledger[i].what = "chain" =>
        \A k \in 1..Len(ledger[i].contracts) :
            LET quotes == Tally("quote", ledger[i].cycle, ledger[i].sym, k)
                checks == Tally("check", ledger[i].cycle, ledger[i].sym, k)
            IN /\ quotes <= 1
               /\ checks <= 1
               /\ Ended(cycles[ledger[i].cycle]) => (quotes = 1 /\ checks = 1)

\* The ended cycles that fetched a chain of symbol sym in which contract k is
\* above the threshold.
FetchedAbove(sym, k) ==
    {c \in 1..Len(cycles) :
        /\ Ended(cycles[c])
        /\ \E i \in 1..Len(ledger) :
              /\ ledger[i].what = "chain"
              /\ ledger[i].cycle = c
              /\ ledger[i].sym = sym
              /\ k <= Len(ledger[i].contracts)
              /\ IsNaked(ledger[i].contracts[k])}

\* C14: events are not deduplicated across cycles: a contract that is above
\* the threshold in the chain fetched by each of N cycles has produced N
\* events once they have ended, exactly one in each of them.
C14_OneEventPerCycle ==
    \A sym \in 1..Len(TRACKED_SYMBOLS), k \in 1..2 :
        /\ \A c \in FetchedAbove(sym, k) : Tally("event", c, sym, k) = 1
        /\ Cardinality({i \in 1..Len(ledger) :
                /\ ledger[i].what = "event"
                /\ ledger[i].sym = sym
                /\ ledger[i].k = k
                /\ ledger[i].cycle \in FetchedAbove(sym, k)})
              = Cardinality(FetchedAbove(sym, k))

\* checkNakedPosition has run on the chosen contract.
Checked == probe.fn = "checkNakedPosition" /\ probe.out # "pending"

\* volume > openInterest * threshold, for the threshold th.num / th.den
AboveThreshold(contract, th) ==
    contract.totalVolume * th.den > contract.openInterest * th.num

\* C11: checkNakedPosition never emits an event for a contract whose open
\* interest is 0 or whose volume is 0, whatever the contract and whatever the
\* configured threshold.
C11_NoEventOnZeroQuantity ==
    (Checked /\ (probe.contract.openInterest = 0 \/ probe.contract.totalVolume = 0))
        => probe.out # "event"

\* A contract with volume but no open interest was checked under the default
\* threshold, which the volume exceeds, and no event was emitted.
C11_Witness ==
    /\ Checked
    /\ probe.contract.openInterest = 0
    /\ probe.contract.totalVolume > 0
    /\ probe.threshold = [num |-> NAKED_THRESHOLD_NUM, den |-> NAKED_THRESHOLD_DEN]
    /\ AboveThreshold(probe.contract, probe.threshold)
    /\ probe.out = "skipped"

\* C12 (as claimed): under the default threshold 1.5 the detector emits an
\* event exactly when volume > openInterest * threshold.
C12_EmitsIffAboveThreshold ==
    (Checked /\ probe.threshold = [num |-> NAKED_THRESHOLD_NUM,
                                    den |-> NAKED_THRESHOLD_DEN])
        => (probe.out = "event" <=> AboveThreshold(probe.contract, probe.threshold))

\* C12 (amended): the detector emits an event exactly when volume and open
\* interest are both non-zero and volume > openInterest * threshold; under
\* the default threshold 1.5, volume 200 on open interest 100 emits and volume
\* 140 on open interest 100 does not.
C12_EmitsIffNonZeroAndAboveThreshold ==
    Checked =>
        /\ probe.out = "event" <=>
               /\ probe.contract.totalVolume # 0
               /\ probe.contract.openInterest # 0
               /\ AboveThreshold(probe.contract, probe.threshold)
        /\ (/\ probe.threshold = [num |-> NAKED_THRESHOLD_NUM,
                                  den |-> NAKED_THRESHOLD_DEN]
            /\ probe.contract.openInterest = 100)
           => /\ probe.contract.totalVolume = 200 => probe.out = "event"
              /\ probe.contract.totalVolume = 140 => probe.out # "event"

\* Volume 200 on open interest 100 was checked under the default threshold and
\* an event was emitted.
C12_Witness ==
    /\ Checked
    /\ probe.threshold = [num |-> NAKED_THRESHOLD_NUM, den |-> NAKED_THRESHOLD_DEN]
    /\ probe.contract.totalVolume = 200
    /\ probe.contract.openInterest = 100
    /\ probe.out = "event"

\* calculateMaxPain has run on a chain that has at least one strike.
Pained ==
    /\ probe.fn = "calculateMaxPain"
    /\ probe.done
    /\ probe.calls \o probe.puts # <<>>

ChainStrikes ==
    {(probe.calls \o probe.puts)[i].strikePrice :
        i \in 1..Len(probe.calls \o probe.puts)}

\* The sum over the call contracts struck below S of openInterest * (S - K) * 100
RECURSIVE CallPain(_, _)
CallPain(contracts, S) ==
    IF contracts = <<>>
    THEN 0
    ELSE (IF Head(contracts).strikePrice < S
          THEN Head(contracts).openInterest * (S - Head(contracts).strikePrice) * 100
          ELSE 0)
         + CallPain(Tail(contracts), S)

\* The sum over the put contracts struck above S of openInterest * (K - S) * 100
RECURSIVE PutPain(_, _)
PutPain(contracts, S) ==
    IF contracts = <<>>
    THEN 0
    ELSE (IF Head(contracts).strikePrice > S
          THEN Head(contracts).openInterest * (Head(contracts).strikePrice - S) * 100
          ELSE 0)
         + PutPain(Tail(contracts), S)

AggregatePain(S) == CallPain(probe.calls, S) + PutPain(probe.puts, S)

\* C15: for every chain with at least one strike, calculateMaxPain returns a
\* strike S of the chain whose aggregate pain (calls struck below S plus puts
\* struck above S, each open interest times distance times 100) is at most
\* the pain of every other strike; for the calls 640/645/650 with open
\* interest 100/50/30 and the puts with 40/60/90 it returns 645.
C15_MaxPainIsMinimal ==
    Pained =>
        /\ probe.out \in ChainStrikes
        /\ \A K \in ChainStrikes : AggregatePain(probe.out) <= AggregatePain(K)
        /\ (probe.calls = ExampleCalls /\ probe.puts = ExamplePuts) => probe.out = 645

\* calculateMaxPain returned 645 for the example chain, whose pains are
\* 120000 at 640, 95000 at 645 and 125000 at 650.
C15_Witness ==
    /\ Pained
    /\ probe.calls = ExampleCalls
    /\ probe.puts = ExamplePuts
    /\ AggregatePain(640) = 120000
    /\ AggregatePain(645) = 95000
    /\ AggregatePain(650) = 125000
    /\ probe.out = 645

\* The strikes of the chain whose pain is minimal.
Tied == {K \in ChainStrikes : \A J \in ChainStrikes : AggregatePain(K) <= AggregatePain(J)}

\* Where strike K first appears in the input, calls before puts.
FirstSeen(K) ==
    CHOOSE i \in 1..Len(probe.calls \o probe.puts) :
        /\ (probe.calls \o probe.puts)[i].strikePrice = K
        /\ \A j \in 1..(i - 1) : (probe.calls \o probe.puts)[j].strikePrice # K

\* C16 (as claimed): when several strikes tie for the minimal pain,
\* calculateMaxPain returns the lowest of them, whatever the order of the
\* contracts in the input lists.
C16_LowestTiedStrike ==
    Pained => \A K \in Tied : probe.out <= K

\* C16 (amended): when several strikes tie for the minimal pain,
\* calculateMaxPain returns the tied strike that appears first in the input
\* (the calls in list order, then the puts); that is the lowest tied strike
\* when strikes first appear in ascending order.
C16_FirstSeenTiedStrike ==
    Pained =>
        /\ probe.out \in Tied
        /\ \A K \in Tied : FirstSeen(probe.out) <= FirstSeen(K)
        /\ (\A J, K \in ChainStrikes : J < K => FirstSeen(J) < FirstSeen(K))
               => \A K \in Tied : probe.out <= K

\* Two strikes tie for the minimal pain, the higher one comes first in the
\* input, and calculateMaxPain returned it.
C16_Witness ==
    /\ Pained
    /\ Cardinality(Tied) >= 2
    /\ \E K \in Tied : K < probe.out /\ FirstSeen(probe.out) < FirstSeen(K)

\* calculateCreditSpreads has run on the chosen list.
Spreads == probe.fn = "calculateCreditSpreads" /\ probe.done

\* short.bid - long.ask of returned spread i, from its two legs
LegCredit(i) == probe.out[i].shortOption.bid - probe.out[i].longOption.ask

\* |short.strike - long.strike| of returned spread i, from its two legs
LegWidth(i) ==
    Abs(probe.out[i].shortOption.strikePrice - probe.out[i].longOption.strikePrice)

\* The input holds two contracts of the requested side, the first struck
\* below the second by a width within bounds, whose short bid less long ask is
\* credit (the short leg is the lower strike for CALL, the higher for PUT).
Offered(credit) ==
    \E a, b \in 1..Len(probe.options) :
        /\ probe.options[a].putCall = probe.optionType
        /\ probe.options[b].putCall = probe.optionType
        /\ probe.options[b].strikePrice - probe.options[a].strikePrice >= MIN_WIDTH
        /\ probe.options[b].strikePrice - probe.options[a].strikePrice <= MAX_WIDTH
        /\ credit = IF probe.optionType = "CALL"
                    THEN probe.options[a].bid - probe.options[b].ask
                    ELSE probe.options[b].bid - probe.options[a].ask

\* C17: every spread returned by calculateCreditSpreads has a width within
\* [5, 50] and a credit (short.bid - long.ask) not below 0.50; a short bid of
\* 2.00 against a long ask of 1.60 (credit 0.40) is never returned.
C17_WidthAndCreditWithinBounds ==
    Spreads => \A i \in 1..Len(probe.out) :
        /\ LegWidth(i) >= 5
        /\ LegWidth(i) <= 50
        /\ probe.out[i].width = LegWidth(i)
        /\ LegCredit(i) >= 50
        /\ probe.out[i].creditReceived = LegCredit(i)
        /\ ~(probe.out[i].shortOption.bid = 200 /\ probe.out[i].longOption.ask = 160)

\* The list offered a pair of credit 0.40 and a pair of a higher credit, both
\* of a width within bounds, and only the second was returned.
C17_Witness ==
    /\ Spreads
    /\ Offered(40)
    /\ Len(probe.out) = 1
    /\ LegCredit(1) > 50

\* C18 (as claimed): the credit of every spread candidate exceeds MIN_CREDIT
\* (0.50); a pair whose credit does not exceed it is never returned.
C18_CreditExceedsMinimum ==
    Spreads => \A i \in 1..Len(probe.out) : LegCredit(i) > MIN_CREDIT

\* C18 (amended): the credit of every spread candidate is at least
\* MIN_CREDIT (0.50): a pair whose credit is below it is never returned, and
\* a pair of short bid 2.00 and long ask 1.50, whose credit equals it, is
\* returned when its width is within bounds.
C18_CreditAtLeastMinimum ==
    Spreads =>
        /\ \A i \in 1..Len(probe.out) : ~(LegCredit(i) < MIN_CREDIT)
        /\ \A a, b \in 1..Len(probe.options) :
              LET lo == probe.options[a]
                  hi == probe.options[b]
                  short == IF probe.optionType = "CALL" THEN lo ELSE hi
                  long == IF probe.optionType = "CALL" THEN hi ELSE lo
              IN (/\ lo.putCall = probe.optionType
                  /\ hi.putCall = probe.optionType
                  /\ hi.strikePrice - lo.strikePrice >= MIN_WIDTH
                  /\ hi.strikePrice - lo.strikePrice <= MAX_WIDTH
                  /\ short.bid = 200
                  /\ long.ask = 150)
                 => \E i \in 1..Len(probe.out) :
                        /\ probe.out[i].shortOption = short
                        /\ probe.out[i].longOption = long

\* A spread whose credit is exactly 0.50 was returned.
C18_Witness ==
    /\ Spreads
    /\ Offered(MIN_CREDIT)
    /\ \E i \in 1..Len(probe.out) : LegCredit(i) = MIN_CREDIT

\* C19: the list returned by calculateCreditSpreads is sorted non-increasing
\* by risk/reward ratio: of two adjacent spreads the earlier has a ratio
\* greater than or equal to the later.
C19_SortedByRiskReward ==
    Spreads => \A i \in 1..(Len(probe.out) - 1) :
        ~Greater(probe.out[i + 1].riskRewardRatio, probe.out[i].riskRewardRatio)

\* Spreads of different ratios were returned, in another order than the loops
\* found them.
C19_Witness ==
    /\ Spreads
    /\ Len(probe.out) >= 2
    /\ Greater(probe.out[1].riskRewardRatio, probe.out[Len(probe.out)].riskRewardRatio)
    /\ LET OfType(opt) == opt.putCall = probe.optionType
       IN probe.out # PairLoop(SortByStrike(SelectSeq(probe.options, OfType)),
                               probe.optionType, 1, 2)

\* C20: in every spread candidate the two legs are of the requested side and
\* of different strikes, the short strike below the long for CALL and above it
\* for PUT, whatever the input list (unsorted, both sides, repeated strikes).
C20_LegsSameSideOrdered ==
    Spreads => \A i \in 1..Len(probe.out) :
        /\ probe.out[i].shortOption.putCall = probe.optionType
        /\ probe.out[i].longOption.putCall = probe.optionType
        /\ probe.out[i].spreadType = probe.optionType
        /\ probe.out[i].shortStrike = probe.out[i].shortOption.strikePrice
        /\ probe.out[i].longStrike = probe.out[i].longOption.strikePrice
        /\ probe.out[i].shortStrike # probe.out[i].longStrike
        /\ probe.optionType = "CALL" => probe.out[i].shortStrike < probe.out[i].longStrike
        /\ probe.optionType = "PUT" => probe.out[i].shortStrike > probe.out[i].longStrike

\* A PUT spread was returned from a list that is not sorted by strike, holds
\* a contract of the other side and repeats a strike.
C20_Witness ==
    /\ Spreads
    /\ probe.optionType = "PUT"
    /\ probe.out # <<>>
    /\ \E a, b \in 1..Len(probe.options) :
          a < b /\ probe.options[a].strikePrice > probe.options[b].strikePrice
    /\ \E a \in 1..Len(probe.options) : probe.options[a].putCall = "CALL"
    /\ \E a, b \in 1..Len(probe.options) :
          a # b /\ probe.options[a].strikePrice = probe.options[b].strikePrice

\* C21: for every spread candidate maxProfit = credit * 100 and
\* maxLoss = (width - credit) * 100 (dollars per contract, the credit being in
\* dollars per share), breakEven is the short strike plus the credit for CALL
\* and minus the credit for PUT, and riskReward is maxProfit / maxLoss when
\* maxLoss > 0 and 0 otherwise; short 650 (bid 1.20) against long 655
\* (ask 0.60) gives credit 0.60, width 5, maxProfit 60, maxLoss 440 and
\* breakEven 650.60.
C21_SpreadEconomics ==
    Spreads => \A i \in 1..Len(probe.out) :
        LET spread == probe.out[i]
            loss == LegWidth(i) * 100 - LegCredit(i)
        IN /\ spread.maxProfit * 100 = LegCredit(i) * 100
           /\ spread.maxLoss * 100 = (LegWidth(i) * 100 - LegCredit(i)) * 100
           /\ spread.breakEven =
                  IF probe.optionType = "CALL"
                  THEN spread.shortOption.strikePrice * 100 + LegCredit(i)
                  ELSE spread.shortOption.strikePrice * 100 - LegCredit(i)
           /\ IF loss > 0
              THEN spread.riskRewardRatio.num * loss
                       = LegCredit(i) * spread.riskRewardRatio.den
              ELSE spread.riskRewardRatio.num = 0
           /\ (spread.shortOption = ExampleOptions[1]
                   /\ spread.longOption = ExampleOptions[2])
              => /\ spread.creditReceived = 60
                 /\ spread.width = 5
                 /\ spread.maxProfit = 60
                 /\ spread.maxLoss = 440
                 /\ spread.breakEven = 65060

\* The 650 / 655 call spread of the example was returned.
C21_Witness ==
    /\ Spreads
    /\ probe.options = ExampleOptions
    /\ Len(probe.out) = 1
    /\ probe.out[1].shortStrike = 650
    /\ probe.out[1].longStrike = 655
    /\ probe.out[1].maxLoss = 440

\* findATMOptions has run on the chosen chain.
Selected == probe.fn = "findATMOptions" /\ probe.done

\* |strike - spot| / spot <= 0.02, as a statement about the quotient
WithinTwoPercent(strike, spot) ==
    \/ spot > 0 /\ Abs(strike - spot) * 100 <= 2 * spot
    \/ spot < 0 /\ Abs(strike - spot) * 100 >= 2 * spot

\* C22: findATMOptions returns at most 3 contracts per side, and every
\* contract it returns satisfies |strike - spot| / spot <= 0.02, whatever
\* the input lists and the spot price.
C22_AtMostThreeWithinTwoPercent ==
    Selected =>
        /\ Len(probe.out.atmCalls) <= 3
        /\ Len(probe.out.atmPuts) <= 3
        /\ \A i \in 1..Len(probe.out.atmCalls) :
              WithinTwoPercent(probe.out.atmCalls[i].contract.strikePrice, probe.spot)
        /\ \A i \in 1..Len(probe.out.atmPuts) :
              WithinTwoPercent(probe.out.atmPuts[i].contract.strikePrice, probe.spot)

\* Four calls within 2% of the price were given, one of them at the boundary
\* (102 for 100), and three were returned.
C22_Witness ==
    /\ Selected
    /\ Len(probe.calls) = 4
    /\ \A i \in 1..4 : /\ probe.calls[i].putCall = "CALL"
                        /\ WithinTwoPercent(probe.calls[i].strikePrice, probe.spot)
    /\ \E i \in 1..4 : probe.calls[i].strikePrice = 102
    /\ Len(probe.out.atmCalls) = 3

\* The contracts of a returned list, in order.
ContractsOf(atm) == [i \in 1..Len(atm) |-> atm[i].contract]

\* Of one side: the returned list atm is in ascending order of |strike - spot|,
\* holds only contracts of the input list, and no contract of that side
\* within 2% of spot that the input holds more often than the result (one
\* that was left out) is strictly closer to spot than a returned contract.
NearestOf(atm, options, side) ==
    /\ \A i \in 1..(Len(atm) - 1) :
          Abs(atm[i].contract.strikePrice - probe.spot)
              <= Abs(atm[i + 1].contract.strikePrice - probe.spot)
    /\ \A i \in 1..Len(atm) :
          /\ atm[i].contract.putCall = side
          /\ Count(ContractsOf(atm), atm[i].contract) <= Count(options, atm[i].contract)
    /\ \A a \in 1..Len(options) :
          (/\ options[a].putCall = side
           /\ WithinTwoPercent(options[a].strikePrice, probe.spot)
           /\ Count(options, options[a]) > Count(ContractsOf(atm), options[a]))
          => \A i \in 1..Len(atm) :
                 ~(Abs(options[a].strikePrice - probe.spot)
                       < Abs(atm[i].contract.strikePrice - probe.spot))

\* C23: per side, findATMOptions returns the nearest in-range strikes in
\* ascending order of absolute distance from spot: the result is sorted by
\* |strike - spot|, and no contract of that side within 2% of spot that was
\* left out is strictly closer to spot than a returned contract.
C23_NearestInAscendingDistance ==
    Selected =>
        /\ NearestOf(probe.out.atmCalls, probe.calls, "CALL")
        /\ NearestOf(probe.out.atmPuts, probe.puts, "PUT")

\* Four puts within 2% of the price were given farthest first (102 before
\* 100); three were returned nearest first and a farthest one was left out.
C23_Witness ==
    /\ Selected
    /\ Len(probe.puts) = 4
    /\ \A i \in 1..4 : /\ probe.puts[i].putCall = "PUT"
                        /\ WithinTwoPercent(probe.puts[i].strikePrice, probe.spot)
    /\ probe.puts[1].strikePrice = 102
    /\ probe.puts[4].strikePrice = 100
    /\ Len(probe.out.atmPuts) = 3
    /\ probe.out.atmPuts[1].contract.strikePrice = 100
    /\ \A i \in 1..3 : probe.out.atmPuts[i].contract.strikePrice # 102

\* analyzeOrderFlow has run on the chosen option.
Flowed == probe.fn = "analyzeOrderFlow" /\ probe.done

\* volume / open interest > 0.5, with open interest > 0
UnusualVolume ==
    /\ probe.option.contract.openInterest > 0
    /\ probe.option.contract.totalVolume * 2 > probe.option.contract.openInterest

\* bid > 0.9 * ask
TightSpread == probe.option.contract.bid * 10 > 9 * probe.option.contract.ask

\* C24: the order-flow heuristic gives a directional signal only when the
\* unusual-volume flag is set (volume / open interest > 0.5, open interest
\* > 0) and bid > 0.9 * ask: then a CALL is BULLISH and a PUT is BEARISH; in
\* every other case the signal is NEUTRAL.
C24_DirectionalOnlyOnUnusualTightFlow ==
    Flowed =>
        /\ probe.out.hasUnusualVolume <=> UnusualVolume
        /\ probe.out.signal =
               IF UnusualVolume /\ TightSpread
               THEN IF probe.option.optionType = "CALL" THEN "BULLISH" ELSE "BEARISH"
               ELSE "NEUTRAL"

\* A put with unusual volume and a bid above 0.9 of the ask is BEARISH.
C24_Witness ==
    /\ Flowed
    /\ probe.option.optionType = "PUT"
    /\ probe.option.contract.totalVolume = 2
    /\ probe.option.contract.openInterest = 3
    /\ probe.option.contract.bid = 91
    /\ probe.option.contract.ask = 100
    /\ probe.out.signal = "BEARISH"

\* C27: execute calls the fallback model if and only if the primary call
\* failed and a fallback is defined; it calls each model at most once; the
\* model it names in its result is the one whose call produced the response;
\* and it throws only when every model it called has failed.
C27_FallbackOnlyAfterPrimaryFailure ==
    (probe.fn = "execute" /\ probe.exec.pc # "idle") =>
        LET exec == probe.exec
            strategy == getModelStrategy(exec.taskType)
            last == exec.calls_[Len(exec.calls_)]
        IN /\ exec.calls_[1] = strategy.primary
           /\ Len(exec.calls_) <= 2
           /\ Len(exec.calls_) = 2 <=>
                  (strategy.primary \in exec.failed /\ strategy.fallback # NoModel)
           /\ Len(exec.calls_) = 2 =>
                  (exec.calls_[2] = strategy.fallback /\ exec.calls_[2] # exec.calls_[1])
           /\ exec.model # "none" => (exec.model = ModelId(last) /\ last \notin exec.failed)
           /\ exec.pc = "returned" => (exec.model # "none" /\ exec.response \in Responses)
           /\ exec.pc = "thrown" =>
                  \A i \in 1..Len(exec.calls_) : exec.calls_[i] \in exec.failed

\* The primary model of a trade prediction failed, the fallback answered, and
\* execute returned the answer under the fallback's name.
C27_Witness ==
    /\ probe.fn = "execute"
    /\ probe.exec.taskType = "trade_prediction"
    /\ probe.exec.pc = "returned"
    /\ probe.exec.calls_ = <<"gemini", "openai">>
    /\ probe.exec.failed = {"gemini"}
    /\ probe.exec.model = "openai-gpt-5"

BatchEnded == probe.fn = "findBestSpreads" /\ probe.pc \in {"returned", "rejected"}

\* Scoring failed for the k-th spread of topSpreads: execute threw, or its
\* response held braces around something JSON.parse rejects.
ScoredFailed(k) == probe.scored[k] \in {"threw", "broken"}

\* C25: when scoring failed for a candidate of a batch, the batch holds a
\* record of score 0, confidence 0 and model 'error' for that candidate, and
\* by the time the batch has ended every candidate of it has been scored.
C25_ScoringFailureSparesTheBatch ==
    (probe.fn = "findBestSpreads" /\ probe.pc # "idle") =>
        \A k \in 1..Len(probe.scored) :
            ScoredFailed(k) =>
                /\ \E r \in 1..Len(probe.analyzedSpreads) :
                      LET analyzed == probe.analyzedSpreads[r]
                      IN /\ analyzed.spread = probe.topSpreads[k]
                         /\ analyzed.aiScore = 0
                         /\ analyzed.aiConfidence = 0
                         /\ analyzed.aiModelUsed = "error"
                /\ BatchEnded => Len(probe.scored) = Len(probe.topSpreads)

\* C26: a record of score 0 and confidence 0 stands only for a candidate
\* whose scoring failed (execute threw, or its response held no parsable
\* object); a candidate the scorer answered for has another score or
\* another confidence, and carries the scorer's model name.
C26_ZeroZeroOnlyOnFailure ==
    (probe.fn = "findBestSpreads" /\ probe.pc # "idle") =>
        /\ Len(probe.analyzedSpreads) = Len(probe.scored)
        /\ \A r \in 1..Len(probe.analyzedSpreads) :
              LET analyzed == probe.analyzedSpreads[r]
                  FailedFor == \E k \in 1..Len(probe.scored) :
                                  /\ probe.topSpreads[k] = analyzed.spread
                                  /\ ScoredFailed(k)
              IN /\ (analyzed.aiScore = 0 /\ analyzed.aiConfidence = 0) => FailedFor
                 /\ FailedFor <=> analyzed.aiModelUsed = "error"

\* The scorer threw for the first spread and answered score 0, confidence 0
\* for the second, which stands in the batch with 50 and 50.
C26_Witness ==
    /\ probe.fn = "findBestSpreads"
    /\ probe.pc = "storing"
    /\ probe.scored = <<"threw", "json">>
    /\ probe.exec.response.score = 0
    /\ probe.exec.response.confidence = 0
    /\ probe.analyzedSpreads[1].aiScore = 0
    /\ probe.analyzedSpreads[1].aiConfidence = 0
    /\ probe.analyzedSpreads[2].aiScore = 50
    /\ probe.analyzedSpreads[2].aiConfidence = 50

\* C28: verifyState returns true at most once for a state, only for a state
\* generateState has issued, and only within ten minutes of its issue,
\* however the calls interleave with the cleanup interval.
C28_StateAcceptedAtMostOnce ==
    probe.fn = "stateStore" =>
        \A state \in StateStrings :
            /\ probe.accepted[state] <= 1
            /\ probe.accepted[state] = 1 =>
                  /\ state \in 1..probe.issued
                  /\ probe.acceptedAt[state] >= probe.issuedAt[state]
                  /\ probe.acceptedAt[state] - probe.issuedAt[state] <= TEN_MINUTES
                  /\ probe.stateStore[state] = Absent

\* A state was accepted, and a later verifyState of it, still within ten
\* minutes of its issue and after a cleanup ran, returned false.
C28_Witness ==
    /\ probe.fn = "stateStore"
    /\ probe.issued >= 1
    /\ probe.accepted[1] = 1
    /\ probe.verified = 1
    /\ probe.result = FALSE
    /\ probe.now - probe.issuedAt[1] <= TEN_MINUTES
    /\ probe.nextSweep > 1 + SWEEP_EVERY

\* C29: in every reachable state of the collector the running flag is true
\* if and only if the timer handle is set, and then exactly the timer of that
\* handle is armed, at POLLING_INTERVAL; with the flag false no timer is
\* armed.
C29_RunningIffTimerArmed ==
    /\ isRunning <=> intervalId # NoTimer
    /\ isRunning <=> timers # {}
    /\ isRunning => timers = {[id |-> intervalId, ms |-> POLLING_INTERVAL]}

\* The collector was started and stopped again: the flag is down, the handle
\* null and the one timer it had armed is gone.
C29_Witness ==
    /\ Len(calls) = 2
    /\ calls[1].op = "start"
    /\ calls[1].res = "ok"
    /\ calls[2].op = "stop"
    /\ timerSeq = 1
    /\ intervalId = NoTimer
    /\ ~isRunning
    /\ timers = {}

\* C30: once the token store is empty it stays empty until an
\* exchangeCodeForToken completes: no other step, the answer to a refresh
\* request that was in flight when clearTokens ran included, stores a token.
C30_LogoutHoldsUntilExchange ==
    [][(tokenStore = "none" /\ tokenStore' # "none") =>
          UNCHANGED <<collectorState, calls, watch>>]_vars
====
